---------------------------- MODULE Spec2Model ----------------------------
(***************************************************************************)
(* Polyinsider ingestion-and-detection pipeline.                           *)
(*                                                                         *)
(* This part of the development models the Signal Detector                 *)
(* (internal/detector/signals.go: Detector), its Burst Tracker            *)
(* (BurstTracker, package detector) and the orchestrator's periodic        *)
(* cleanup task (package main).                                            *)
(*                                                                         *)
(* Conventions.  Time is an integer number of seconds since start          *)
(* (time.Now()); it only moves forward.  Prices are integers in units of    *)
(* 0.01 (95 is 0.95), USD values are integers.  A Go map is a function      *)
(* whose DOMAIN is the set of keys present.  Every goroutine that calls     *)
(* into the detector has a program counter pc[c]; a sync.Mutex is the name  *)
(* of the goroutine that holds it, or NoHolder.                             *)
(***************************************************************************)
EXTENDS Integers, Sequences, FiniteSets, TLC

\* ------------------------------------------------------------- bounds

\* number of Detect calls explored when the detector's API is exercised
MaxCalls == 3
\* number of Detect calls explored when the Burst Tracker is exercised
MaxBurstCalls == 3
\* number of trades the workers receive
MaxTrades == 3
\* the clock runs from 0 to MaxTime
MaxTime == 60
\* number of BurstTracker.Cleanup calls explored
MaxCleanups == 1
\* number of firings of the orchestrator's cleanup ticker explored
MaxTicks == 2
\* Detect calls explored next to ShouldEnrich
MaxEnrichCalls == 2
\* DialContext calls explored where the listener runs next to its monitor
MaxAttempts == 3
\* DialContext calls explored where the listener's progress is followed
MaxFairAttempts == 1
\* DialContext calls explored while the trade queue is filled
MaxIngestAttempts == 2
\* DialContext calls explored where the backoff is followed to its ceiling
MaxBackoffAttempts == 8
\* trades the parser returns
MaxArrived == 3
\* capacity given to tradeChan and to suspectChan
TradeCap == 2
SuspectCap == 2
\* fetches of the poller
MaxPolls == 2
\* the time to which the clock advances next to the listener
MaxListenerTime == 120
\* trades handed to the workers
MaxWorkerTrades == 3
\* the calls of ParseMessage and convertTrade in a parser run
MaxParseCalls == 2
\* the time to which the clock advances next to the poller
MaxPollTime == 6
\* trades the parser returns to the run loop of the pipeline
MaxPipelineTrades == 2
\* messages read from the book feed
MaxBookMessages == 3

\* ----------------------------------------------------- configuration

MinValueUSD == 2000
WhaleValueUSD == 50000
FreshWalletNonce == 5
BurstCount == 3
\* BurstWindow, in seconds
BurstWindow == 60
\* pctChange (a float64) is kept with four decimals
PctScale == 100 * 100
\* the price-shock threshold 0.05
ShockThreshold == (5 * PctScale) \div 100
\* MetricsTracker.Cleanup's cutoff, 60 minutes in seconds
MetricsCutoff == 3600

\* websocket.go: the reconnection and heartbeat constants, in seconds
\* trades_api.go: DefaultPollInterval, and the lookback of NewTradesPoller,
\* in seconds
DefaultPollInterval == 3
Lookback == 300
InitialBackoff == 1
MaxBackoff == 60
BackoffFactor == 2
HeartbeatTimeout == 60
PongTimeout == 10

\* ------------------------------------------------------------ inputs

\* the clock advances by one of these numbers of seconds
ClockSteps == {30}

Callers == {"w1", "w2"}
Cleaner == "cleaner"
NoHolder == "none"

Assets == {"a1", "a2"}
\* the maker addresses; a trade may also carry the empty address ""
Addresses == {"0xA", "0xB"}

\* store.Trade, the fields Detect and the worker read
Trade(asset, price, value, maker) ==
  [AssetID |-> asset, MarketID |-> "m1", MakerAddress |-> maker,
   Price |-> price, ValueUSD |-> value]

\* The calls Detect(trade, nonce) explored.  On a1 the price 1.00 -> 0.95 is
\* a change of exactly 5% and 0.95 -> 1.00 one of 5.26%; on a2 1.00 -> 0.96
\* and back are changes of 4% and 4.17%.  (For each of these pairs the
\* float64 quotient of the source lies on the same side of 0.05 as the exact
\* one.)  The values sit on and next to MinValueUSD and WhaleValueUSD, the
\* nonces on and next to 0 and FreshWalletNonce; each rule's condition occurs
\* alone and together with the others'.
Inputs ==
  { [trade |-> Trade("a1", 100, 100, "0xA"), nonce |-> -1],
    [trade |-> Trade("a1", 95, 50000, "0xA"), nonce |-> 5],
    [trade |-> Trade("a1", 0, 2000, ""), nonce |-> 0],
    [trade |-> Trade("a2", 100, 1999, "0xB"), nonce |-> 5],
    [trade |-> Trade("a1", 100, 49999, ""), nonce |-> 6],
    [trade |-> Trade("a2", 96, 55000, "0xA"), nonce |-> -1],
    [trade |-> Trade("a1", 95, 2000, "0xB"), nonce |-> -1] }

\* The calls explored when the Burst Tracker is exercised: they differ in the
\* maker address only.
BurstInputs ==
  { [trade |-> Trade("a1", 100, 100, addr), nonce |-> -1] : addr \in Addresses }

\* The trades the workers receive from the trade queue.
MainTrades ==
  { Trade("a1", 100, 100, "0xA"), Trade("a1", 95, 55000, "0xB"),
    Trade("a2", 100, 2000, "") }

\* The trades given to ShouldEnrich: the three of TestShouldEnrich, and the
\* values on and right below MinValueUSD with and without a maker address.
EnrichInputs ==
  { Trade("a1", 100, 2500, "0xA"), Trade("a1", 100, 1000, "0xA"),
    Trade("a1", 100, 5000, ""), Trade("a1", 100, 2000, "0xB"),
    Trade("a1", 100, 1999, "0xB"), Trade("a1", 100, 1999, ""),
    Trade("a1", 100, 2000, "") }

SignalFreshInsider == "FRESH_INSIDER"
SignalWhale == "WHALE"
SignalPanicBurst == "PANIC_BURST"
SignalPriceShock == "PRICE_SHOCK"

\* ----------------------------------------------------------- helpers

\* m[k] = v on a Go map
Put(m, k, v) == [x \in DOMAIN m \cup {k} |-> IF x = k THEN v ELSE m[x]]

\* delete(m, k) for every k in ks
DeleteAll(m, ks) == [x \in DOMAIN m \ ks |-> m[x]]

EmptyMap == [x \in {} |-> 0]

\* m[k] of a map of slices: the nil slice when the key is absent
Lookup(m, k) == IF k \in DOMAIN m THEN m[k] ELSE << >>

Abs(x) == IF x < 0 THEN -x ELSE x

VARIABLES
  now,            \* time.Now()
  lastPrices,     \* Detector.lastPrices
  mu,             \* Detector.mu
  trades,         \* BurstTracker.trades
  bmu,            \* BurstTracker.mu
  marketActivity, \* MetricsTracker.marketActivity: market id -> LastUpdate
  pc,             \* position of each caller of Detect
  arg,            \* the (trade, nonce) of the call in progress
  priceRead,      \* Detect's locals lastPrice, exists (idx: place in priceLog)
  suspects,       \* Detect's local suspects
  rec,            \* Record's locals now, timestamps (idx: place in recorded)
  count,          \* Record's result
  clpc,           \* position of the caller of BurstTracker.Cleanup
  clNow,          \* Cleanup's local now
  calls,          \* number of Detect calls started
  cleanups,       \* number of BurstTracker.Cleanup calls started
  ticks,          \* number of firings of the cleanup ticker
  recorded,       \* history: address -> every timestamp Record appended
  priceLog,       \* history: asset -> every (previous, new) of Detect
  cleanLog        \* history: the map before and after the last Cleanup

VARIABLES
  enrich          \* the last call of ShouldEnrich: its trade and its result

VARIABLES
  conn,           \* Listener.conn (NoConn: nil)
  openConns,      \* the connections dialed and not closed yet
  dialed,         \* number of connections dialed; connect's local conn
  backoff,        \* Listener.backoff, in seconds
  lastMsg,        \* Listener.lastMsg (ZeroTime: the zero time.Time)
  stopChan,       \* Listener.stopChan: "open" or "closed"
  ctxDone,        \* main's ctx is cancelled
  wg,             \* Listener.wg
  mpc,            \* position of main: NewListener, Start, cancel, Stop
  lpc,            \* position of runLoop
  rconn,          \* readLoop's local conn
  pending,        \* handleMessage's trades not dispatched yet
  hpc,            \* position of heartbeatMonitor
  hlastMsg,       \* checkHeartbeat's local lastMsg
  hconn,          \* checkHeartbeat's local conn
  attempts,       \* number of DialContext calls
  failure,        \* history: what made connect or readLoop return last
  waits,          \* history: waitBackoff calls since the last successful dial
  failedConnects,    \* history: consecutive failed connection attempts
  subscribed,     \* history: the connection the subscription was last written to
  pinged,         \* history: the connection a ping was last written to
  arrived         \* history: number of trades the parser returned so far

VARIABLES
  tradeChan,      \* main's tradeChan
  dropped,        \* history: trades dropped on a full tradeChan
  ppc,            \* position of TradesPoller.Start
  pbatch,         \* poll's trades not sent yet
  polls,          \* number of fetches
  suspectChan,    \* main's suspectChan
  suspectDrops,   \* history: suspects dropped on a full suspectChan
  wtrade,         \* worker's local trade
  offered,        \* worker's position in the range over suspects
  recvLog,        \* history: the trades each worker received
  detectLog       \* history: the (trade, nonce) each worker gave to Detect

VARIABLES
  parsed,         \* the last call of ParseMessage: its data and its results
  converted,      \* the last call of convertTrade: its argument and result
  parseCalls      \* number of calls of ParseMessage and convertTrade

VARIABLES
  lastPoll,       \* TradesPoller.lastPoll
  lastFetch       \* history: the last call of fetchRecentTrades

VARIABLES
  uipc,           \* position of App.processTrades ("new": no TUI started)
  uiDone,         \* the App's ctx is cancelled
  uiLog,          \* history: the trades processTrades received
  cpc,            \* position of main's periodic cleanup goroutine
  drained,        \* drainTrades' local drained
  timeout,        \* drainTrades' timeout channel has fired
  drainLog,       \* history: the count drainTrades logged (NoLog: none)
  drainedTrades   \* history: the trades drainTrades received

detectorVars ==
  <<now, lastPrices, mu, trades, bmu, marketActivity, pc, arg, priceRead,
    suspects, rec, count, clpc, clNow, calls, cleanups, ticks, recorded,
    priceLog, cleanLog>>

enrichVars == <<enrich>>

listenerVars ==
  <<conn, openConns, dialed, backoff, lastMsg, stopChan, ctxDone, wg, mpc,
    lpc, rconn, pending, hpc, hlastMsg, hconn, attempts, failure, waits, failedConnects, subscribed, pinged, arrived>>

queueVars ==
  <<tradeChan, dropped, ppc, pbatch, polls, suspectChan, suspectDrops, wtrade,
    offered, recvLog, detectLog>>

parserVars == <<parsed, converted, parseCalls>>

pollVars == <<lastPoll, lastFetch>>

shutdownVars ==
  <<uipc, uiDone, uiLog, cpc, drained, timeout, drainLog, drainedTrades>>

extraVars == <<parserVars, pollVars, shutdownVars>>

otherVars == <<enrichVars, listenerVars, queueVars, extraVars>>

vars == <<detectorVars, otherVars>>

\* ------------------------------------------------- zero values (Go)

ZeroTrade ==
  [AssetID |-> "", MarketID |-> "", MakerAddress |-> "", Price |-> 0,
   ValueUSD |-> 0]

ZeroArg == [trade |-> ZeroTrade, nonce |-> 0]

ZeroPriceRead == [lastPrice |-> 0, exists |-> FALSE, idx |-> 0]

ZeroRec == [now |-> 0, timestamps |-> << >>, idx |-> 0]

NoCleanLog == [ran |-> FALSE, before |-> EmptyMap, after |-> EmptyMap, now |-> 0]

NoEnrich == [called |-> FALSE, trade |-> ZeroTrade, result |-> FALSE]

\* before the first call of ParseMessage, of convertTrade
NoParsed == [called |-> FALSE]

NoConverted == [called |-> FALSE]

\* before the first call of fetchRecentTrades
NoFetch == [called |-> FALSE]

\* drainTrades has logged nothing
NoLog == 0 - 1

\* a nil *websocket.Conn; the connections dialed are numbered from 1
NoConn == 0

\* the zero time.Time, which no reading of the clock gives
ZeroTime == 0 - 1

\* ------------------------------------------------------ time.Time

\* t.After(u)
After(t, u) == t > u

\* t.Before(u)
Before(t, u) == t < u

\* ------------------------------------------------- Detector rules

\* the number of price units in 1.0, where a parsed price is handed to the
\* detector rules
PriceUnit == 1000

\* store.Suspect
Suspect(trade, signalType, nonce, meta) ==
  [Trade |-> trade, SignalType |-> signalType, Nonce |-> nonce, Meta |-> meta]

\* pctChange := delta / lastPrice, kept with four decimals
PctChange(price, lastPrice) == (Abs(price - lastPrice) * PctScale) \div lastPrice

\* Check 1 with the threshold excluded (pctChange > 0.05)
PriceShockSuspectsStrict(trade, nonce, lastPrice, exists) ==
  IF exists /\ lastPrice > 0 /\ PctChange(trade.Price, lastPrice) > ShockThreshold
  THEN << Suspect(trade, SignalPriceShock, nonce,
                  [k \in {"prev_price", "new_price", "pct_change"} |->
                     CASE k = "prev_price" -> lastPrice
                       [] k = "new_price" -> trade.Price
                       [] OTHER -> PctChange(trade.Price, lastPrice)]) >>
  ELSE << >>

\* Check 1: Price Shock
PriceShockSuspects(trade, nonce, lastPrice, exists) ==
  IF exists /\ lastPrice > 0 /\ PctChange(trade.Price, lastPrice) >= ShockThreshold
  THEN << Suspect(trade, SignalPriceShock, nonce,
                  [k \in {"prev_price", "new_price", "pct_change"} |->
                     CASE k = "prev_price" -> lastPrice
                       [] k = "new_price" -> trade.Price
                       [] OTHER -> PctChange(trade.Price, lastPrice)]) >>
  ELSE << >>

\* Check 2 as its comment has it (value_usd > 50000)
WhaleSuspectsStrict(trade, nonce) ==
  IF trade.ValueUSD > WhaleValueUSD
  THEN << Suspect(trade, SignalWhale, nonce, EmptyMap) >>
  ELSE << >>

\* Check 2: Whale
WhaleSuspects(trade, nonce) ==
  IF trade.ValueUSD >= WhaleValueUSD
  THEN << Suspect(trade, SignalWhale, nonce, EmptyMap) >>
  ELSE << >>

\* Check 3 as its comment has it (wallet_nonce < 5)
FreshInsiderSuspectsStrict(trade, nonce) ==
  IF nonce >= 0 /\ trade.ValueUSD >= MinValueUSD /\ nonce < FreshWalletNonce
  THEN << Suspect(trade, SignalFreshInsider, nonce, EmptyMap) >>
  ELSE << >>

\* Check 3: Fresh Insider
FreshInsiderSuspects(trade, nonce) ==
  IF nonce >= 0 /\ trade.ValueUSD >= MinValueUSD /\ nonce <= FreshWalletNonce
  THEN << Suspect(trade, SignalFreshInsider, nonce, EmptyMap) >>
  ELSE << >>

\* checks 1-3 as an if / else-if chain: the first match ends the evaluation
Checks123FirstMatch(trade, nonce, lastPrice, exists) ==
  IF PriceShockSuspects(trade, nonce, lastPrice, exists) # << >>
  THEN PriceShockSuspects(trade, nonce, lastPrice, exists)
  ELSE IF WhaleSuspects(trade, nonce) # << >>
  THEN WhaleSuspects(trade, nonce)
  ELSE FreshInsiderSuspects(trade, nonce)

\* checks 1-3 in the order of the source, each appending to suspects
Checks123(trade, nonce, lastPrice, exists) ==
  PriceShockSuspects(trade, nonce, lastPrice, exists)
  \o WhaleSuspects(trade, nonce)
  \o FreshInsiderSuspects(trade, nonce)

\* Check 4 with the threshold excluded (count > BurstCount)
PanicBurstSuspectsStrict(trade, nonce, n) ==
  IF n > BurstCount
  THEN << Suspect(trade, SignalPanicBurst, nonce, EmptyMap) >>
  ELSE << >>

\* Check 4: Panic Burst, given Record's result
PanicBurstSuspects(trade, nonce, n) ==
  IF n >= BurstCount
  THEN << Suspect(trade, SignalPanicBurst, nonce, EmptyMap) >>
  ELSE << >>

\* ------------------------------------------------- BurstTracker.Record

\* the loop that finds validIdx, from index i (0-based, as in the source)
RECURSIVE ValidIdxFrom(_, _, _)
ValidIdxFrom(timestamps, cutoff, i) ==
  IF i >= Len(timestamps) THEN 0
  ELSE IF After(timestamps[i + 1], cutoff) THEN i
  ELSE IF i = Len(timestamps) - 1 THEN Len(timestamps)
  ELSE ValidIdxFrom(timestamps, cutoff, i + 1)

ValidIdx(timestamps, cutoff) == ValidIdxFrom(timestamps, cutoff, 0)

\* Record keeping the timestamps at the cutoff itself (!t.Before(cutoff))
PrunedKeepingCutoff(timestamps, t) ==
  LET validIdx == ValidIdx(timestamps, t - BurstWindow - 1)
      kept == IF validIdx > 0
              THEN SubSeq(timestamps, validIdx + 1, Len(timestamps))
              ELSE timestamps
  IN  Append(kept, t)

\* timestamps[validIdx:] followed by append(timestamps, now)
Pruned(timestamps, t) ==
  LET validIdx == ValidIdx(timestamps, t - BurstWindow)
      kept == IF validIdx > 0
              THEN SubSeq(timestamps, validIdx + 1, Len(timestamps))
              ELSE timestamps
  IN  Append(kept, t)

\* Cleanup looking at the oldest timestamp (timestamps[0]) of each key
StaleByOldest(m, t) ==
  {addr \in DOMAIN m :
     Len(m[addr]) = 0 \/ ~After(m[addr][1], t - BurstWindow)}

\* the keys Cleanup deletes at time t
Stale(m, t) ==
  {addr \in DOMAIN m :
     Len(m[addr]) = 0 \/ ~After(m[addr][Len(m[addr])], t - BurstWindow)}

\* ---------------------------------------------------------- Init

Init ==
  /\ now = 0
  /\ lastPrices = EmptyMap
  /\ mu = NoHolder
  /\ trades = EmptyMap
  /\ bmu = NoHolder
  /\ marketActivity = EmptyMap
  /\ pc = [c \in Callers |-> "idle"]
  /\ arg = [c \in Callers |-> ZeroArg]
  /\ priceRead = [c \in Callers |-> ZeroPriceRead]
  /\ suspects = [c \in Callers |-> << >>]
  /\ rec = [c \in Callers |-> ZeroRec]
  /\ count = [c \in Callers |-> 0]
  /\ clpc = "idle"
  /\ clNow = 0
  /\ calls = 0
  /\ cleanups = 0
  /\ ticks = 0
  /\ recorded = [a \in Addresses |-> << >>]
  /\ priceLog = [a \in Assets |-> << >>]
  /\ cleanLog = NoCleanLog
  /\ enrich = NoEnrich
  /\ conn = NoConn
  /\ openConns = {}
  /\ dialed = 0
  /\ backoff = InitialBackoff
  /\ lastMsg = ZeroTime
  /\ stopChan = "open"
  /\ ctxDone = FALSE
  /\ wg = 0
  /\ mpc = "start"
  /\ lpc = "new"
  /\ rconn = NoConn
  /\ pending = << >>
  /\ hpc = "new"
  /\ hlastMsg = ZeroTime
  /\ hconn = NoConn
  /\ attempts = 0
  /\ failure = "none"
  /\ waits = 0
  /\ failedConnects = 0
  /\ subscribed = NoConn
  /\ pinged = NoConn
  /\ arrived = 0
  /\ tradeChan = << >>
  /\ dropped = << >>
  /\ ppc = "new"
  /\ pbatch = << >>
  /\ polls = 0
  /\ suspectChan = << >>
  /\ suspectDrops = << >>
  /\ wtrade = [w \in Callers |-> ZeroTrade]
  /\ offered = [w \in Callers |-> 0]
  /\ recvLog = [w \in Callers |-> << >>]
  /\ detectLog = [w \in Callers |-> << >>]
  /\ parsed = NoParsed
  /\ converted = NoConverted
  /\ parseCalls = 0
  /\ lastPoll = now - Lookback
  /\ lastFetch = NoFetch
  /\ uipc = "new"
  /\ uiDone = FALSE
  /\ uiLog = << >>
  /\ cpc = "select"
  /\ drained = 0
  /\ timeout = FALSE
  /\ drainLog = NoLog
  /\ drainedTrades = << >>

\* ------------------------------------------------- Detector.Detect

\* entry of Detect(trade, nonce): var suspects []store.Suspect
DetectCall(c, trade, nonce) ==
  /\ pc[c] = "idle"
  /\ calls' = calls + 1
  /\ arg' = [arg EXCEPT ![c] = [trade |-> trade, nonce |-> nonce]]
  /\ suspects' = [suspects EXCEPT ![c] = << >>]
  /\ pc' = [pc EXCEPT ![c] = "lockPrices"]
  /\ UNCHANGED <<now, lastPrices, mu, trades, bmu, priceRead, rec, count, clpc,
                 clNow, cleanups, ticks, recorded, priceLog, cleanLog,
                 extraVars>>
  /\ UNCHANGED <<enrichVars, listenerVars, extraVars>>

\* a caller of the detector's API (any nonce), as TestDetector is
ApiDetect(c) ==
  /\ calls < MaxCalls
  /\ \E in \in Inputs : DetectCall(c, in.trade, in.nonce)
  /\ UNCHANGED marketActivity
  /\ UNCHANGED queueVars

\* the same, with calls that differ in the maker address only
BurstDetect(c) ==
  /\ calls < MaxBurstCalls
  /\ \E in \in BurstInputs : DetectCall(c, in.trade, in.nonce)
  /\ UNCHANGED marketActivity
  /\ UNCHANGED queueVars

\* worker: a trade arrives from tradeChan; tracker.UpdateMarketActivity sets
\* the market's LastUpdate; then detect.Detect(trade, -1).  (The tracker's
\* counters and price points are not part of the state.)
WorkerReceive(w) ==
  /\ calls < MaxTrades
  /\ \E trade \in MainTrades :
        /\ marketActivity' = Put(marketActivity, trade.MarketID, now)
        /\ DetectCall(w, trade, -1)
  /\ UNCHANGED queueVars

\* the read of the last price without d.mu (the write takes it alone)
DetectPriceReadUnlocked(c) ==
  /\ pc[c] = "lockPrices"
  /\ priceRead' =
       [priceRead EXCEPT ![c] =
          IF arg[c].trade.AssetID \in DOMAIN lastPrices
          THEN [lastPrice |-> lastPrices[arg[c].trade.AssetID], exists |-> TRUE,
                idx |-> 0]
          ELSE ZeroPriceRead]
  /\ pc' = [pc EXCEPT ![c] = "writePrice"]
  /\ UNCHANGED <<now, lastPrices, mu, trades, bmu, marketActivity, arg,
                 suspects, rec, count, clpc, clNow, calls, cleanups, ticks,
                 recorded, priceLog, cleanLog, extraVars>>
  /\ UNCHANGED otherVars

\* d.mu.Lock(); lastPrice, exists := d.lastPrices[trade.AssetID]
DetectPriceRead(c) ==
  /\ pc[c] = "lockPrices"
  /\ mu = NoHolder
  /\ mu' = c
  /\ priceRead' =
       [priceRead EXCEPT ![c] =
          IF arg[c].trade.AssetID \in DOMAIN lastPrices
          THEN [lastPrice |-> lastPrices[arg[c].trade.AssetID], exists |-> TRUE,
                idx |-> 0]
          ELSE ZeroPriceRead]
  /\ pc' = [pc EXCEPT ![c] = "writePrice"]
  /\ UNCHANGED <<now, lastPrices, trades, bmu, marketActivity, arg, suspects,
                 rec, count, clpc, clNow, calls, cleanups, ticks, recorded,
                 priceLog, cleanLog, extraVars>>
  /\ UNCHANGED otherVars

\* a Detect that calls Record for every trade, with or without a maker
\* address
DetectPriceWriteAlwaysRecord(c) ==
  LET trade == arg[c].trade
      nonce == arg[c].nonce
  IN  /\ pc[c] = "writePrice"
      /\ lastPrices' = Put(lastPrices, trade.AssetID, trade.Price)
      /\ mu' = NoHolder
      /\ priceLog' =
           [priceLog EXCEPT ![trade.AssetID] =
              Append(@, [lastPrice |-> priceRead[c].lastPrice,
                         exists |-> priceRead[c].exists, new |-> trade.Price])]
      /\ priceRead' =
           [priceRead EXCEPT ![c].idx = Len(priceLog[trade.AssetID]) + 1]
      /\ suspects' =
           [suspects EXCEPT ![c] =
              Checks123(trade, nonce, priceRead[c].lastPrice,
                        priceRead[c].exists)]
      /\ pc' = [pc EXCEPT ![c] = "lockBurst"]
      /\ UNCHANGED <<now, trades, bmu, marketActivity, arg, rec, count, clpc,
                     clNow, calls, cleanups, ticks, recorded, cleanLog,
                     extraVars>>
      /\ UNCHANGED otherVars

\* d.lastPrices[trade.AssetID] = trade.Price; d.mu.Unlock(); checks 1-3
DetectPriceWrite(c) ==
  LET trade == arg[c].trade
      nonce == arg[c].nonce
  IN  /\ pc[c] = "writePrice"
      /\ lastPrices' = Put(lastPrices, trade.AssetID, trade.Price)
      /\ mu' = NoHolder
      /\ priceLog' =
           [priceLog EXCEPT ![trade.AssetID] =
              Append(@, [lastPrice |-> priceRead[c].lastPrice,
                         exists |-> priceRead[c].exists, new |-> trade.Price])]
      /\ priceRead' =
           [priceRead EXCEPT ![c].idx = Len(priceLog[trade.AssetID]) + 1]
      /\ suspects' =
           [suspects EXCEPT ![c] =
              Checks123(trade, nonce, priceRead[c].lastPrice,
                        priceRead[c].exists)]
      /\ pc' = [pc EXCEPT ![c] =
                  IF trade.MakerAddress # "" THEN "lockBurst" ELSE "return"]
      /\ UNCHANGED <<now, trades, bmu, marketActivity, arg, rec, count, clpc,
                     clNow, calls, cleanups, ticks, recorded, cleanLog,
                     extraVars>>
      /\ UNCHANGED otherVars

\* Record reading b.trades without b.mu
RecordLockUnlocked(c) ==
  /\ pc[c] = "lockBurst"
  /\ rec' = [rec EXCEPT ![c] =
               [now |-> now,
                timestamps |-> Lookup(trades, arg[c].trade.MakerAddress),
                idx |-> 0]]
  /\ pc' = [pc EXCEPT ![c] = "recordWrite"]
  /\ UNCHANGED <<now, lastPrices, mu, trades, bmu, marketActivity, arg,
                 priceRead, suspects, count, clpc, clNow, calls, cleanups,
                 ticks, recorded, priceLog, cleanLog, extraVars>>
  /\ UNCHANGED otherVars

\* Record: b.mu.Lock(); now := time.Now(); timestamps := b.trades[address]
RecordLock(c) ==
  /\ pc[c] = "lockBurst"
  /\ bmu = NoHolder
  /\ bmu' = c
  /\ rec' = [rec EXCEPT ![c] =
               [now |-> now,
                timestamps |-> Lookup(trades, arg[c].trade.MakerAddress),
                idx |-> 0]]
  /\ pc' = [pc EXCEPT ![c] = "recordWrite"]
  /\ UNCHANGED <<now, lastPrices, mu, trades, marketActivity, arg, priceRead,
                 suspects, count, clpc, clNow, calls, cleanups, ticks,
                 recorded, priceLog, cleanLog, extraVars>>
  /\ UNCHANGED otherVars

\* Record: prune, append, store, unlock, return len(timestamps); check 4
RecordWrite(c) ==
  LET trade == arg[c].trade
      addr == trade.MakerAddress
      timestamps == Pruned(rec[c].timestamps, rec[c].now)
  IN  /\ pc[c] = "recordWrite"
      /\ trades' = Put(trades, addr, timestamps)
      /\ bmu' = NoHolder
      /\ count' = [count EXCEPT ![c] = Len(timestamps)]
      /\ recorded' = [recorded EXCEPT ![addr] = Append(@, rec[c].now)]
      /\ rec' = [rec EXCEPT ![c].timestamps = timestamps,
                             ![c].idx = Len(recorded[addr]) + 1]
      /\ suspects' =
           [suspects EXCEPT ![c] =
              @ \o PanicBurstSuspects(trade, arg[c].nonce, Len(timestamps))]
      /\ pc' = [pc EXCEPT ![c] = "return"]
      /\ UNCHANGED <<now, lastPrices, mu, marketActivity, arg, priceRead, clpc,
                     clNow, calls, cleanups, ticks, priceLog, cleanLog,
                     extraVars>>
      /\ UNCHANGED otherVars

\* return suspects: the caller takes the result and is ready for the next call
DetectReturn(c) ==
  /\ pc[c] = "return"
  /\ pc' = [pc EXCEPT ![c] = "idle"]
  /\ arg' = [arg EXCEPT ![c] = ZeroArg]
  /\ priceRead' = [priceRead EXCEPT ![c] = ZeroPriceRead]
  /\ suspects' = [suspects EXCEPT ![c] = << >>]
  /\ rec' = [rec EXCEPT ![c] = ZeroRec]
  /\ count' = [count EXCEPT ![c] = 0]
  /\ UNCHANGED <<now, lastPrices, mu, trades, bmu, marketActivity, clpc, clNow,
                 calls, cleanups, ticks, recorded, priceLog, cleanLog,
                 extraVars>>
  /\ UNCHANGED otherVars

\* ------------------------------------------------ BurstTracker.Cleanup

\* b.mu.Lock(); now := time.Now()
CleanupLock ==
  /\ clpc = "idle"
  /\ cleanups < MaxCleanups
  /\ bmu = NoHolder
  /\ bmu' = Cleaner
  /\ clNow' = now
  /\ cleanups' = cleanups + 1
  /\ clpc' = "sweep"
  /\ UNCHANGED <<now, lastPrices, mu, trades, marketActivity, pc, arg,
                 priceRead, suspects, rec, count, calls, ticks, recorded,
                 priceLog, cleanLog, extraVars>>
  /\ UNCHANGED otherVars

\* the loop over b.trades, then the deferred Unlock
CleanupSweep ==
  /\ clpc = "sweep"
  /\ trades' = DeleteAll(trades, Stale(trades, clNow))
  /\ bmu' = NoHolder
  /\ cleanLog' = [ran |-> TRUE, before |-> trades, after |-> trades', now |-> clNow]
  /\ clpc' = "done"
  /\ UNCHANGED <<now, lastPrices, mu, marketActivity, pc, arg, priceRead,
                 suspects, rec, count, clNow, calls, cleanups, ticks, recorded,
                 priceLog, extraVars>>
  /\ UNCHANGED otherVars

CleanupReturn ==
  /\ clpc = "done"
  /\ clpc' = "idle"
  /\ clNow' = 0
  /\ cleanLog' = NoCleanLog
  /\ UNCHANGED <<now, lastPrices, mu, trades, bmu, marketActivity, pc, arg,
                 priceRead, suspects, rec, count, calls, cleanups, ticks,
                 recorded, priceLog, extraVars>>
  /\ UNCHANGED otherVars

\* ---------------------------------------------------------- clock

Tick ==
  /\ \E d \in ClockSteps :
        /\ now + d <= MaxTime
        /\ now' = now + d
  /\ UNCHANGED <<lastPrices, mu, trades, bmu, marketActivity, pc, arg,
                 priceRead, suspects, rec, count, clpc, clNow, calls, cleanups,
                 ticks, recorded, priceLog, cleanLog, extraVars>>
  /\ UNCHANGED otherVars

\* --------------------------------- the orchestrator's periodic cleanup

\* MetricsTracker.Cleanup: the keys it deletes at time t
StaleMarkets(m, t) == {id \in DOMAIN m : Before(m[id], t - MetricsCutoff)}

\* main's cleanup goroutine: case <-ticker.C: tracker.Cleanup()
PeriodicCleanup ==
  /\ ticks < MaxTicks
  /\ ticks' = ticks + 1
  /\ marketActivity' =
       DeleteAll(marketActivity, StaleMarkets(marketActivity, now))
  /\ UNCHANGED <<now, lastPrices, mu, trades, bmu, pc, arg, priceRead, suspects,
                 rec, count, clpc, clNow, calls, cleanups, recorded, priceLog,
                 cleanLog, extraVars>>
  /\ UNCHANGED otherVars

\* ------------------------------------------- the detector's API in use

Next ==
  \/ \E c \in Callers : ApiDetect(c)
  \/ \E c \in Callers : DetectPriceRead(c)
  \/ \E c \in Callers : DetectPriceWrite(c)
  \/ \E c \in Callers : RecordLock(c)
  \/ \E c \in Callers : RecordWrite(c)
  \/ \E c \in Callers : DetectReturn(c)
  \/ Tick

Spec == Init /\ [][Next]_vars

\* ------------------------- the Burst Tracker in use, Cleanup included

NextBurst ==
  \/ \E c \in Callers : BurstDetect(c)
  \/ \E c \in Callers : DetectPriceRead(c)
  \/ \E c \in Callers : DetectPriceWrite(c)
  \/ \E c \in Callers : RecordLock(c)
  \/ \E c \in Callers : RecordWrite(c)
  \/ \E c \in Callers : DetectReturn(c)
  \/ CleanupLock
  \/ CleanupSweep
  \/ CleanupReturn
  \/ Tick

SpecBurst == Init /\ [][NextBurst]_vars

\* ------------------- the pipeline as main starts it: workers and ticker

NextMain ==
  \/ \E w \in Callers : WorkerReceive(w)
  \/ \E w \in Callers : DetectPriceRead(w)
  \/ \E w \in Callers : DetectPriceWrite(w)
  \/ \E w \in Callers : RecordLock(w)
  \/ \E w \in Callers : RecordWrite(w)
  \/ \E w \in Callers : DetectReturn(w)
  \/ PeriodicCleanup
  \/ Tick

SpecMain == Init /\ [][NextMain]_vars

\* ------------------------------------------ Detector.ShouldEnrich

\* the gate without the test of the maker address
ShouldEnrichAnyMaker(trade) == trade.ValueUSD >= MinValueUSD

\* return trade.ValueUSD >= d.cfg.MinValueUSD && trade.MakerAddress != ""
ShouldEnrich(trade) ==
  trade.ValueUSD >= MinValueUSD /\ trade.MakerAddress # ""

\* a call of ShouldEnrich by a caller that is not inside Detect; it takes
\* no lock and assigns no field
ShouldEnrichCall(c) ==
  /\ pc[c] = "idle"
  /\ \E trade \in EnrichInputs :
        enrich' = [called |-> TRUE, trade |-> trade,
                   result |-> ShouldEnrich(trade)]
  /\ UNCHANGED <<detectorVars, listenerVars, queueVars, extraVars>>

\* Detect calls made next to ShouldEnrich
EnrichDetect(c) ==
  /\ calls < MaxEnrichCalls
  /\ \E in \in Inputs : DetectCall(c, in.trade, in.nonce)
  /\ UNCHANGED marketActivity
  /\ UNCHANGED queueVars

NextEnrich ==
  \/ \E c \in Callers : EnrichDetect(c)
  \/ \E c \in Callers : ShouldEnrichCall(c)
  \/ \E c \in Callers : DetectPriceRead(c)
  \/ \E c \in Callers : DetectPriceWrite(c)
  \/ \E c \in Callers : RecordLock(c)
  \/ \E c \in Callers : RecordWrite(c)
  \/ \E c \in Callers : DetectReturn(c)

SpecEnrich == Init /\ [][NextEnrich]_vars

\* --------------------------------------------- the trade queue

\* an enqueue that does not look at the capacity
SendAlways(q, cap, x) == Append(q, x)

\* select { case ch <- x: ... default: ... } on a channel of capacity cap:
\* the channel after it
TrySend(q, cap, x) == IF Len(q) < cap THEN Append(q, x) ELSE q

\* a trade as the Stream Listener enqueues it: the n-th trade the parser
\* returned (only its identity matters to the listener)
WireTrade(n) ==
  [ID |-> n, src |-> "ws", AssetID |-> "a1", MarketID |-> "m1",
   MakerAddress |-> "0xA", Price |-> 100, ValueUSD |-> 60000]

\* a trade as the Secondary Poller enqueues it
ApiTrade(n) ==
  [ID |-> n, src |-> "api", AssetID |-> "a1", MarketID |-> "m1",
   MakerAddress |-> "0xB", Price |-> 95, ValueUSD |-> 55000]

\* what ParseMessage returns for the messages explored: an error, no trade,
\* one trade, two trades
Messages == {[err |-> TRUE, n |-> 0]} \cup {[err |-> FALSE, n |-> k] : k \in 0..2}

\* the steps by which the clock advances next to the listener
ListenerClockSteps == {HeartbeatTimeout}

\* the trades first+1 .. first+n, in this order
Batch(first, n) == [i \in 1..n |-> first + i]

\* the same trades, last one first
BatchReversed(first, n) == [i \in 1..n |-> first + n + 1 - i]

\* ParseMessage's trades for the next message, in the parser's output order
Parsed(first, n) == Batch(first, n)

Min(a, b) == IF a < b THEN a ELSE b

\* ------------------------------ main: Start, cancel, Stop (Listener)

\* Start: l.wg.Add(1); go l.runLoop(ctx)
StartRunLoop ==
  /\ mpc = "start"
  /\ wg' = wg + 1
  /\ lpc' = "loopTop"
  /\ mpc' = "startMonitor"
  /\ UNCHANGED <<detectorVars, enrichVars, conn, openConns, dialed, backoff,
                 lastMsg, stopChan, ctxDone, rconn, pending, hpc, hlastMsg,
                 hconn, attempts, failure, waits,
                 failedConnects, subscribed, pinged, arrived,
                 queueVars, extraVars>>

\* Start: l.wg.Add(1); go l.heartbeatMonitor(ctx)
StartHeartbeat ==
  /\ mpc = "startMonitor"
  /\ wg' = wg + 1
  /\ hpc' = "select"
  /\ mpc' = "running"
  /\ UNCHANGED <<detectorVars, enrichVars, conn, openConns, dialed, backoff,
                 lastMsg, stopChan, ctxDone, lpc, rconn, pending, hlastMsg,
                 hconn, attempts, failure, waits,
                 failedConnects, subscribed, pinged, arrived,
                 queueVars, extraVars>>

\* main: cancel()
Cancel ==
  /\ mpc = "running"
  /\ ~ctxDone
  /\ ctxDone' = TRUE
  /\ UNCHANGED <<detectorVars, enrichVars, conn, openConns, dialed, backoff,
                 lastMsg, stopChan, wg, mpc, lpc, rconn, pending, hpc,
                 hlastMsg, hconn, attempts, failure, waits,
                 failedConnects, subscribed, pinged, arrived,
                 queueVars, extraVars>>

\* Stop: close(l.stopChan); called by main after cancel(), or by a user of
\* the Listener without it
StopClose ==
  /\ mpc = "running"
  /\ stopChan' = "closed"
  /\ mpc' = "stopCloseConnection"
  /\ UNCHANGED <<detectorVars, enrichVars, conn, openConns, dialed, backoff,
                 lastMsg, ctxDone, wg, lpc, rconn, pending, hpc, hlastMsg,
                 hconn, attempts, failure, waits,
                 failedConnects, subscribed, pinged, arrived,
                 queueVars, extraVars>>

\* closeConnection, under connMu: if l.conn != nil { l.conn.Close();
\* l.conn = nil }
CloseConnection ==
  /\ openConns' = openConns \ {conn}
  /\ conn' = NoConn

\* Stop: l.closeConnection()
StopCloseConnection ==
  /\ mpc = "stopCloseConnection"
  /\ CloseConnection
  /\ mpc' = "stopWait"
  /\ UNCHANGED <<detectorVars, enrichVars, dialed, backoff, lastMsg,
                 stopChan, ctxDone, wg, lpc, rconn, pending, hpc, hlastMsg,
                 hconn, attempts, failure, waits,
                 failedConnects, subscribed, pinged, arrived,
                 queueVars, extraVars>>

\* a Wait that returns with one task still running
StopWaitForOne ==
  /\ mpc = "stopWait"
  /\ wg <= 1
  /\ mpc' = "stopped"
  /\ UNCHANGED <<detectorVars, enrichVars, conn, openConns, dialed, backoff,
                 lastMsg, stopChan, ctxDone, wg, lpc, rconn, pending, hpc,
                 hlastMsg, hconn, attempts, failure, waits,
                 failedConnects, subscribed, pinged, arrived,
                 queueVars, extraVars>>

\* Stop: l.wg.Wait() returns
StopWait ==
  /\ mpc = "stopWait"
  /\ wg = 0
  /\ mpc' = "stopped"
  /\ UNCHANGED <<detectorVars, enrichVars, conn, openConns, dialed, backoff,
                 lastMsg, stopChan, ctxDone, wg, lpc, rconn, pending, hpc,
                 hlastMsg, hconn, attempts, failure, waits,
                 failedConnects, subscribed, pinged, arrived,
                 queueVars, extraVars>>

\* --------------------------------------------- Listener.runLoop

\* a signal that makes the selects on ctx.Done() and l.stopChan ready
StopSignal == ctxDone \/ stopChan = "closed"

\* a runLoop without the select at the top of its loop
LoopTopNoSelect ==
  /\ lpc = "loopTop"
  /\ lpc' = "dial"
  /\ UNCHANGED <<detectorVars, enrichVars, conn, openConns, dialed, backoff,
                 lastMsg, stopChan, ctxDone, wg, mpc, rconn, pending, hpc,
                 hlastMsg, hconn, attempts, failure, waits,
                 failedConnects, subscribed, pinged, arrived,
                 queueVars, extraVars>>

\* runLoop, top of the loop: the select on ctx.Done() and l.stopChan;
\* returning runs the deferred l.wg.Done()
LoopTop ==
  /\ lpc = "loopTop"
  /\ IF StopSignal
       THEN lpc' = "exited" /\ wg' = wg - 1
       ELSE lpc' = "dial" /\ wg' = wg
  /\ UNCHANGED <<detectorVars, enrichVars, conn, openConns, dialed, backoff,
                 lastMsg, stopChan, ctxDone, mpc, rconn, pending, hpc,
                 hlastMsg, hconn, attempts, failure, waits,
                 failedConnects, subscribed, pinged, arrived,
                 queueVars, extraVars>>

\* connect: dialer.DialContext(ctx, url, headers); it fails when ctx is
\* cancelled; a failure makes connect return and runLoop call waitBackoff
DialContext(ok) ==
  /\ lpc = "dial"
  /\ ok => ~ctxDone
  /\ attempts' = attempts + 1
  /\ IF ok
       THEN /\ dialed' = dialed + 1
            /\ openConns' = openConns \cup {dialed + 1}
            /\ lpc' = "setConn"
            /\ UNCHANGED <<failure, failedConnects, extraVars>>
       ELSE /\ failure' = "dial"
            /\ failedConnects' = failedConnects + 1
            /\ lpc' = "waitBackoff"
            /\ UNCHANGED <<dialed, openConns, extraVars>>
  /\ UNCHANGED <<detectorVars, enrichVars, conn, backoff, lastMsg, stopChan,
                 ctxDone, wg, mpc, rconn, pending, hpc, hlastMsg, hconn,
                 waits, subscribed, pinged, arrived,
                 queueVars, extraVars>>

\* a connect that goes on to read without subscribing
SetConnNoSubscribe ==
  /\ lpc = "setConn"
  /\ conn' = dialed
  /\ backoff' = InitialBackoff
  /\ waits' = 0
  /\ lpc' = "updateLastMsg"
  /\ UNCHANGED <<detectorVars, enrichVars, openConns, dialed, lastMsg,
                 stopChan, ctxDone, wg, mpc, rconn, pending, hpc, hlastMsg,
                 hconn, attempts, failure, failedConnects,
                 subscribed, pinged, arrived, queueVars, extraVars>>

\* connect: l.conn = conn under connMu; l.backoff = InitialBackoff
SetConn ==
  /\ lpc = "setConn"
  /\ conn' = dialed
  /\ backoff' = InitialBackoff
  /\ waits' = 0
  /\ lpc' = "subscribe"
  /\ UNCHANGED <<detectorVars, enrichVars, openConns, dialed, lastMsg,
                 stopChan, ctxDone, wg, mpc, rconn, pending, hpc, hlastMsg,
                 hconn, attempts, failure, failedConnects,
                 subscribed, pinged, arrived, queueVars, extraVars>>

\* subscribe, under connMu: an error when l.conn is nil or WriteJSON fails;
\* connect then returns the error and runLoop calls waitBackoff
Subscribe(ok) ==
  /\ lpc = "subscribe"
  /\ ok => conn # NoConn
  /\ IF ok
       THEN /\ subscribed' = conn
            /\ lpc' = "updateLastMsg"
            /\ UNCHANGED <<failure, failedConnects, extraVars>>
       ELSE /\ failure' = "subscribe"
            /\ failedConnects' = failedConnects + 1
            /\ lpc' = "waitBackoff"
            /\ UNCHANGED subscribed
  /\ UNCHANGED <<detectorVars, enrichVars, conn, openConns, dialed, backoff,
                 lastMsg, stopChan, ctxDone, wg, mpc, rconn, pending, hpc,
                 hlastMsg, hconn, attempts, waits, pinged, arrived, queueVars,
                 extraVars>>

\* connect: l.updateLastMsg(); return nil
ConnectUpdateLastMsg ==
  /\ lpc = "updateLastMsg"
  /\ lastMsg' = now
  /\ failedConnects' = 0
  /\ failure' = "none"
  /\ lpc' = "readSelect"
  /\ UNCHANGED <<detectorVars, enrichVars, conn, openConns, dialed, backoff,
                 stopChan, ctxDone, wg, mpc, rconn, pending, hpc, hlastMsg,
                 hconn, attempts, waits, subscribed,
                 pinged, arrived, queueVars, extraVars>>

\* readLoop: the select on ctx.Done() (return ctx.Err()) and l.stopChan
\* (return nil)
ReadSelect ==
  /\ lpc = "readSelect"
  /\ \/ /\ ctxDone
        /\ failure' = "cancelled"
        /\ lpc' = "closeConnection"
     \/ /\ stopChan = "closed"
        /\ failure' = "stopped"
        /\ lpc' = "closeConnection"
     \/ /\ ~StopSignal
        /\ lpc' = "readConn"
        /\ UNCHANGED failure
  /\ UNCHANGED <<detectorVars, enrichVars, conn, openConns, dialed, backoff,
                 lastMsg, stopChan, ctxDone, wg, mpc, rconn, pending, hpc,
                 hlastMsg, hconn, attempts, waits,
                 failedConnects, subscribed, pinged, arrived,
                 queueVars, extraVars>>

\* readLoop: conn := l.conn under connMu; an error when it is nil
ReadConn ==
  /\ lpc = "readConn"
  /\ rconn' = conn
  /\ IF conn = NoConn
       THEN failure' = "read" /\ lpc' = "closeConnection"
       ELSE lpc' = "readMessage" /\ UNCHANGED failure
  /\ UNCHANGED <<detectorVars, enrichVars, conn, openConns, dialed, backoff,
                 lastMsg, stopChan, ctxDone, wg, mpc, pending, hpc,
                 hlastMsg, hconn, attempts, waits,
                 failedConnects, subscribed, pinged, arrived,
                 queueVars, extraVars>>

\* readLoop: conn.ReadMessage() returns an error: the connection was closed,
\* the peer failed, or the read deadline of HeartbeatTimeout + PongTimeout
\* passed
ReadMessageError ==
  /\ lpc = "readMessage"
  /\ failure' = "read"
  /\ lpc' = "closeConnection"
  /\ UNCHANGED <<detectorVars, enrichVars, conn, openConns, dialed, backoff,
                 lastMsg, stopChan, ctxDone, wg, mpc, rconn, pending, hpc,
                 hlastMsg, hconn, attempts, waits,
                 failedConnects, subscribed, pinged, arrived,
                 queueVars, extraVars>>

\* readLoop: conn.ReadMessage() returns a message, which an open connection
\* only does; pending is what ParseMessage will return for it
ReadMessage(m) ==
  /\ lpc = "readMessage"
  /\ rconn \in openConns
  /\ pending' = Parsed(arrived, m.n)
  /\ arrived' = arrived + m.n
  /\ lpc' = "readUpdate"
  /\ UNCHANGED <<detectorVars, enrichVars, conn, openConns, dialed, backoff,
                 lastMsg, stopChan, ctxDone, wg, mpc, rconn, hpc, hlastMsg,
                 hconn, attempts, failure, waits, failedConnects,
                 subscribed, pinged, queueVars, extraVars>>

\* readLoop: l.updateLastMsg()
ReadUpdateLastMsg ==
  /\ lpc = "readUpdate"
  /\ lastMsg' = now
  /\ lpc' = "handle"
  /\ UNCHANGED <<detectorVars, enrichVars, conn, openConns, dialed, backoff,
                 stopChan, ctxDone, wg, mpc, rconn, pending, hpc, hlastMsg,
                 hconn, attempts, failure, waits,
                 failedConnects, subscribed, pinged, arrived,
                 queueVars, extraVars>>

\* handleMessage: the non-blocking send of the next trade; on a full channel
\* the default case logs trade_channel_full
HandleDispatch ==
  /\ lpc = "handle"
  /\ pending # << >>
  /\ tradeChan' = TrySend(tradeChan, TradeCap, WireTrade(Head(pending)))
  /\ dropped' = IF Len(tradeChan) < TradeCap THEN dropped
                ELSE Append(dropped, WireTrade(Head(pending)))
  /\ pending' = Tail(pending)
  /\ UNCHANGED <<detectorVars, enrichVars, conn, openConns, dialed, backoff,
                 lastMsg, stopChan, ctxDone, wg, mpc, lpc, rconn, hpc,
                 hlastMsg, hconn, attempts, failure, waits,
                 failedConnects, subscribed, pinged, arrived, ppc,
                 pbatch, polls, suspectChan, suspectDrops, wtrade, offered,
                 recvLog, detectLog, extraVars>>

\* a handleMessage whose return ends the read loop
HandleReturnFatal ==
  /\ lpc = "handle"
  /\ pending = << >>
  /\ lpc' = "closeConnection"
  /\ UNCHANGED <<detectorVars, enrichVars, conn, openConns, dialed, backoff,
                 lastMsg, stopChan, ctxDone, wg, mpc, rconn, pending, hpc,
                 hlastMsg, hconn, attempts, failure, waits,
                 failedConnects, subscribed, pinged, arrived,
                 queueVars, extraVars>>

\* handleMessage returns: a parse error, no trade, or every trade dispatched
HandleReturn ==
  /\ lpc = "handle"
  /\ pending = << >>
  /\ lpc' = "readSelect"
  /\ UNCHANGED <<detectorVars, enrichVars, conn, openConns, dialed, backoff,
                 lastMsg, stopChan, ctxDone, wg, mpc, rconn, pending, hpc,
                 hlastMsg, hconn, attempts, failure, waits,
                 failedConnects, subscribed, pinged, arrived,
                 queueVars, extraVars>>

\* runLoop: l.closeConnection() after readLoop returned
CloseAfterRead ==
  /\ lpc = "closeConnection"
  /\ CloseConnection
  /\ lpc' = "checkStop"
  /\ UNCHANGED <<detectorVars, enrichVars, dialed, backoff, lastMsg,
                 stopChan, ctxDone, wg, mpc, rconn, pending, hpc, hlastMsg,
                 hconn, attempts, failure, waits,
                 failedConnects, subscribed, pinged, arrived,
                 queueVars, extraVars>>

\* a runLoop that returns after any error of readLoop
CheckStopFatal ==
  /\ lpc = "checkStop"
  /\ lpc' = "exited"
  /\ wg' = wg - 1
  /\ UNCHANGED <<detectorVars, enrichVars, conn, openConns, dialed, backoff,
                 lastMsg, stopChan, ctxDone, mpc, rconn, pending, hpc,
                 hlastMsg, hconn, attempts, failure, waits,
                 failedConnects, subscribed, pinged, arrived,
                 queueVars, extraVars>>

\* runLoop: the select after closeConnection; its default case calls
\* waitBackoff
CheckStop ==
  /\ lpc = "checkStop"
  /\ IF StopSignal
       THEN lpc' = "exited" /\ wg' = wg - 1
       ELSE lpc' = "waitBackoff" /\ wg' = wg
  /\ UNCHANGED <<detectorVars, enrichVars, conn, openConns, dialed, backoff,
                 lastMsg, stopChan, ctxDone, mpc, rconn, pending, hpc,
                 hlastMsg, hconn, attempts, failure, waits,
                 failedConnects, subscribed, pinged, arrived,
                 queueVars, extraVars>>

\* the doubling without the ceiling
NextBackoffUnbounded(b) == b * BackoffFactor

\* l.backoff after a wait: doubled, at most MaxBackoff
NextBackoff(b) == Min(b * BackoffFactor, MaxBackoff)

\* waitBackoff: wait := l.backoff + jitter, the jitter within 20% of
\* l.backoff; the select on ctx.Done(), l.stopChan and time.After(wait)
WaitBackoffBegin ==
  /\ lpc = "waitBackoff"
  /\ waits' = waits + 1
  /\ lpc' = "waiting"
  /\ UNCHANGED <<detectorVars, enrichVars, conn, openConns, dialed, backoff,
                 lastMsg, stopChan, ctxDone, wg, mpc, rconn, pending, hpc,
                 hlastMsg, hconn, attempts, failure,
                 failedConnects, subscribed, pinged, arrived, queueVars,
                 extraVars>>

\* waitBackoff: the select returns (a signal or the timer); l.backoff is
\* doubled up to MaxBackoff
WaitBackoffEnd ==
  /\ lpc = "waiting"
  /\ backoff' = NextBackoff(backoff)
  /\ lpc' = "loopTop"
  /\ UNCHANGED <<detectorVars, enrichVars, conn, openConns, dialed, lastMsg,
                 stopChan, ctxDone, wg, mpc, rconn, pending, hpc, hlastMsg,
                 hconn, attempts, failure, waits,
                 failedConnects, subscribed, pinged, arrived,
                 queueVars, extraVars>>

\* ------------------------------------- Listener.heartbeatMonitor

\* heartbeatMonitor: the select takes ctx.Done() or l.stopChan; returning
\* runs the deferred l.wg.Done()
HeartbeatExit ==
  /\ hpc = "select"
  /\ StopSignal
  /\ hpc' = "exited"
  /\ wg' = wg - 1
  /\ UNCHANGED <<detectorVars, enrichVars, conn, openConns, dialed, backoff,
                 lastMsg, stopChan, ctxDone, mpc, lpc, rconn, pending,
                 hlastMsg, hconn, attempts, failure, waits,
                 failedConnects, subscribed, pinged, arrived,
                 queueVars, extraVars>>

\* heartbeatMonitor: the select takes ticker.C; checkHeartbeat reads
\* l.lastMsg under lastMsgMu and returns when it is zero
HeartbeatTick ==
  /\ hpc = "select"
  /\ hlastMsg' = lastMsg
  /\ hpc' = IF lastMsg = ZeroTime THEN "select" ELSE "elapsed"
  /\ UNCHANGED <<detectorVars, enrichVars, conn, openConns, dialed, backoff,
                 lastMsg, stopChan, ctxDone, wg, mpc, lpc, rconn, pending,
                 hconn, attempts, failure, waits, failedConnects,
                 subscribed, pinged, arrived, queueVars, extraVars>>

\* elapsed > HeartbeatTimeout, for elapsed := time.Since(lastMsg)
TimedOut(last, t) == t - last > HeartbeatTimeout

\* checkHeartbeat: on a timeout conn := l.conn under connMu; nothing to do
\* when it is nil
CheckHeartbeatElapsed ==
  /\ hpc = "elapsed"
  /\ IF TimedOut(hlastMsg, now)
       THEN /\ hconn' = conn
            /\ hpc' = IF conn = NoConn THEN "select" ELSE "ping"
       ELSE /\ hpc' = "select"
            /\ UNCHANGED hconn
  /\ UNCHANGED <<detectorVars, enrichVars, conn, openConns, dialed, backoff,
                 lastMsg, stopChan, ctxDone, wg, mpc, lpc, rconn, pending,
                 hlastMsg, attempts, failure, waits,
                 failedConnects, subscribed, pinged, arrived,
                 queueVars, extraVars>>

\* checkHeartbeat: conn.WriteMessage(websocket.PingMessage, nil), which
\* fails on a closed connection
Ping(ok) ==
  /\ hpc = "ping"
  /\ ok => hconn \in openConns
  /\ IF ok
       THEN pinged' = hconn /\ hpc' = "select"
       ELSE hpc' = "pingFailed" /\ UNCHANGED pinged
  /\ UNCHANGED <<detectorVars, enrichVars, conn, openConns, dialed, backoff,
                 lastMsg, stopChan, ctxDone, wg, mpc, lpc, rconn, pending,
                 hlastMsg, hconn, attempts, failure, waits,
                 failedConnects, subscribed, arrived, queueVars, extraVars>>

\* checkHeartbeat: l.closeConnection() after ws_ping_failed
PingFailedClose ==
  /\ hpc = "pingFailed"
  /\ CloseConnection
  /\ hpc' = "select"
  /\ UNCHANGED <<detectorVars, enrichVars, dialed, backoff, lastMsg,
                 stopChan, ctxDone, wg, mpc, lpc, rconn, pending, hlastMsg,
                 hconn, attempts, failure, waits,
                 failedConnects, subscribed, pinged, arrived,
                 queueVars, extraVars>>

\* time passes
Elapse ==
  /\ \E d \in ListenerClockSteps :
        /\ now + d <= MaxListenerTime
        /\ now' = now + d
  /\ UNCHANGED <<lastPrices, mu, trades, bmu, marketActivity, pc, arg,
                 priceRead, suspects, rec, count, clpc, clNow, calls,
                 cleanups, ticks, recorded, priceLog, cleanLog, enrichVars,
                 listenerVars, queueVars, extraVars>>

\* ------------------------------------------- TradesPoller.Start

\* the numbers of trades a successful fetch returns
PollBatches == {0, 1}

\* main: go poller.Start(ctx), when a REST URL is configured
PollerStart ==
  /\ mpc = "running"
  /\ ppc = "new"
  /\ ppc' = "poll"
  /\ UNCHANGED <<detectorVars, enrichVars, listenerVars, tradeChan, dropped,
                 pbatch, polls, suspectChan, suspectDrops, wtrade, offered,
                 recvLog, detectLog, extraVars>>

\* a poller that a failed fetch terminates
PollFetchFatal(ok, n) ==
  /\ ppc = "poll"
  /\ ok => ~ctxDone
  /\ polls' = polls + 1
  /\ lastFetch' = [called |-> TRUE, after |-> lastPoll, ok |-> ok, n |-> n,
                   at |-> now]
  /\ lastPoll' = IF ok /\ n > 0 THEN now ELSE lastPoll
  /\ IF ok
       THEN pbatch' = [i \in 1..n |-> ApiTrade(polls + i)] /\ ppc' = "send"
       ELSE ppc' = "exited" /\ UNCHANGED pbatch
  /\ UNCHANGED <<detectorVars, enrichVars, listenerVars, tradeChan, dropped,
                 suspectChan, suspectDrops, wtrade, offered, recvLog,
                 detectLog, parserVars, shutdownVars>>

\* poll: fetchRecentTrades(ctx, p.lastPoll), which fails when ctx is
\* cancelled, the request fails, the status is not 200 or the body does not
\* decode; an error makes poll return it and Start log it; a result that is
\* not empty sets p.lastPoll = time.Now() and is ranged over
PollFetch(ok, n) ==
  /\ ppc = "poll"
  /\ ok => ~ctxDone
  /\ polls' = polls + 1
  /\ lastFetch' = [called |-> TRUE, after |-> lastPoll, ok |-> ok, n |-> n,
                   at |-> now]
  /\ lastPoll' = IF ok /\ n > 0 THEN now ELSE lastPoll
  /\ IF ok
       THEN pbatch' = [i \in 1..n |-> ApiTrade(polls + i)] /\ ppc' = "send"
       ELSE ppc' = "select" /\ UNCHANGED pbatch
  /\ UNCHANGED <<detectorVars, enrichVars, listenerVars, tradeChan, dropped,
                 suspectChan, suspectDrops, wtrade, offered, recvLog,
                 detectLog, parserVars, shutdownVars>>

\* poll: the non-blocking send of the next trade; on a full channel the
\* default case logs trade_channel_full_api
PollerSend ==
  /\ ppc = "send"
  /\ pbatch # << >>
  /\ tradeChan' = TrySend(tradeChan, TradeCap, Head(pbatch))
  /\ dropped' = IF Len(tradeChan) < TradeCap THEN dropped
                ELSE Append(dropped, Head(pbatch))
  /\ pbatch' = Tail(pbatch)
  /\ UNCHANGED <<detectorVars, enrichVars, listenerVars, ppc, polls,
                 suspectChan, suspectDrops, wtrade, offered, recvLog,
                 detectLog, extraVars>>

\* poll returns nil
PollReturn ==
  /\ ppc = "send"
  /\ pbatch = << >>
  /\ ppc' = "select"
  /\ UNCHANGED <<detectorVars, enrichVars, listenerVars, tradeChan, dropped,
                 pbatch, polls, suspectChan, suspectDrops, wtrade, offered,
                 recvLog, detectLog, extraVars>>

\* Start: the select takes ticker.C
PollerTick ==
  /\ ppc = "select"
  /\ polls < MaxPolls
  /\ ppc' = "poll"
  /\ UNCHANGED <<detectorVars, enrichVars, listenerVars, tradeChan, dropped,
                 pbatch, polls, suspectChan, suspectDrops, wtrade, offered,
                 recvLog, detectLog, extraVars>>

\* Start: the select takes ctx.Done()
PollerExit ==
  /\ ppc = "select"
  /\ ctxDone
  /\ ppc' = "exited"
  /\ UNCHANGED <<detectorVars, enrichVars, listenerVars, tradeChan, dropped,
                 pbatch, polls, suspectChan, suspectDrops, wtrade, offered,
                 recvLog, detectLog, extraVars>>

\* time passes by one polling interval
PollClock ==
  /\ now + DefaultPollInterval <= MaxPollTime
  /\ now' = now + DefaultPollInterval
  /\ UNCHANGED <<lastPrices, mu, trades, bmu, marketActivity, pc, arg,
                 priceRead, suspects, rec, count, clpc, clNow, calls,
                 cleanups, ticks, recorded, priceLog, cleanLog, otherVars>>

\* ----------------- the listener, its monitor and the poller as main
\* ----------------- runs them

\* the dials explored next to the monitor: MaxAttempts of them before the
\* stop signal, and the one that is in progress when it is given
ListenerDial ==
  /\ attempts < MaxAttempts \/ StopSignal
  /\ \E ok \in BOOLEAN : DialContext(ok)

\* the messages explored next to the monitor: those without a trade
ListenerRead ==
  /\ \E m \in {x \in Messages : x.n = 0} : ReadMessage(m)

NextListener ==
  \/ StartRunLoop
  \/ StartHeartbeat
  \/ Cancel
  \/ StopClose
  \/ StopCloseConnection
  \/ StopWait
  \/ LoopTop
  \/ ListenerDial
  \/ SetConn
  \/ \E ok \in BOOLEAN : Subscribe(ok)
  \/ ConnectUpdateLastMsg
  \/ ReadSelect
  \/ ReadConn
  \/ ReadMessageError
  \/ ListenerRead
  \/ ReadUpdateLastMsg
  \/ HandleReturn
  \/ CloseAfterRead
  \/ CheckStop
  \/ WaitBackoffBegin
  \/ WaitBackoffEnd
  \/ HeartbeatExit
  \/ HeartbeatTick
  \/ CheckHeartbeatElapsed
  \/ \E ok \in BOOLEAN : Ping(ok)
  \/ PingFailedClose
  \/ Elapse

SpecListener == Init /\ [][NextListener]_vars

\* the dials explored where the listener's progress is followed
FairDial ==
  /\ attempts < MaxFairAttempts \/ StopSignal
  /\ \E ok \in BOOLEAN : DialContext(ok)

NextListenerFair ==
  \/ StartRunLoop
  \/ StartHeartbeat
  \/ Cancel
  \/ StopClose
  \/ StopCloseConnection
  \/ StopWait
  \/ LoopTop
  \/ FairDial
  \/ SetConn
  \/ \E ok \in BOOLEAN : Subscribe(ok)
  \/ ConnectUpdateLastMsg
  \/ ReadSelect
  \/ ReadConn
  \/ ReadMessageError
  \/ ListenerRead
  \/ ReadUpdateLastMsg
  \/ HandleReturn
  \/ CloseAfterRead
  \/ CheckStop
  \/ WaitBackoffBegin
  \/ WaitBackoffEnd
  \/ HeartbeatExit
  \/ HeartbeatTick
  \/ CheckHeartbeatElapsed
  \/ \E ok \in BOOLEAN : Ping(ok)
  \/ PingFailedClose
  \/ Elapse

\* a step of runLoop, of heartbeatMonitor, of Stop
RunLoopStep ==
  \/ LoopTop
  \/ FairDial
  \/ SetConn
  \/ \E ok \in BOOLEAN : Subscribe(ok)
  \/ ConnectUpdateLastMsg
  \/ ReadSelect
  \/ ReadConn
  \/ ReadMessageError
  \/ ListenerRead
  \/ ReadUpdateLastMsg
  \/ HandleReturn
  \/ CloseAfterRead
  \/ CheckStop
  \/ WaitBackoffBegin
  \/ WaitBackoffEnd

MonitorStep ==
  \/ CheckHeartbeatElapsed
  \/ \E ok \in BOOLEAN : Ping(ok)
  \/ PingFailedClose

StopStep ==
  \/ StopCloseConnection
  \/ StopWait

\* The goroutines are scheduled, and each of their blocking calls returns:
\* the dial within its handshake timeout, the writes within WriteTimeout,
\* ReadMessage within its read deadline, waitBackoff when its timer fires.
\* A select with a ready stop signal takes it after finitely many ticks.
ListenerFairness ==
  /\ WF_vars(RunLoopStep)
  /\ WF_vars(MonitorStep)
  /\ SF_vars(HeartbeatExit)
  /\ WF_vars(StopStep)

SpecListenerFair == Init /\ [][NextListenerFair]_vars /\ ListenerFairness

\* ------------------- ingestion: the run loop and the poller filling
\* ------------------- the trade queue

\* the dials explored while the trade queue is filled
IngestDial ==
  /\ attempts < MaxIngestAttempts
  /\ \E ok \in BOOLEAN : DialContext(ok)

\* the messages explored: while the parser has returned fewer than MaxArrived
\* trades
IngestRead ==
  \E m \in Messages :
    /\ arrived + m.n <= MaxArrived
    /\ ReadMessage(m)

\* worker: trade, ok := <-tradeChan, seen from the queue
QueueReceive ==
  /\ tradeChan # << >>
  /\ tradeChan' = Tail(tradeChan)
  /\ UNCHANGED <<detectorVars, enrichVars, listenerVars, dropped, ppc,
                 pbatch, polls, suspectChan, suspectDrops, wtrade, offered,
                 recvLog, detectLog, extraVars>>

NextIngest ==
  \/ StartRunLoop
  \/ StartHeartbeat
  \/ Cancel
  \/ LoopTop
  \/ IngestDial
  \/ SetConn
  \/ \E ok \in BOOLEAN : Subscribe(ok)
  \/ ConnectUpdateLastMsg
  \/ ReadSelect
  \/ ReadConn
  \/ ReadMessageError
  \/ IngestRead
  \/ ReadUpdateLastMsg
  \/ HandleDispatch
  \/ HandleReturn
  \/ CloseAfterRead
  \/ CheckStop
  \/ WaitBackoffBegin
  \/ WaitBackoffEnd
  \/ PollerStart
  \/ \E ok \in BOOLEAN, n \in PollBatches : PollFetch(ok, n)
  \/ PollerSend
  \/ PollReturn
  \/ PollerTick
  \/ PollerExit
  \/ QueueReceive

SpecIngest == Init /\ [][NextIngest]_vars

\* ------------------------------------------------------- worker

\* a source's non-blocking send of a trade into tradeChan, as handleMessage
\* and poll do it
IngestSend ==
  /\ arrived < MaxWorkerTrades
  /\ arrived' = arrived + 1
  /\ \E trade \in MainTrades :
        /\ tradeChan' = TrySend(tradeChan, TradeCap, trade)
        /\ dropped' = IF Len(tradeChan) < TradeCap THEN dropped
                      ELSE Append(dropped, trade)
  /\ UNCHANGED <<detectorVars, enrichVars, conn, openConns, dialed, backoff,
                 lastMsg, stopChan, ctxDone, wg, mpc, lpc, rconn, pending,
                 hpc, hlastMsg, hconn, attempts, failure, waits,
                 failedConnects, subscribed, pinged, ppc, pbatch,
                 polls, suspectChan, suspectDrops, wtrade, offered, recvLog,
                 detectLog, extraVars>>

\* worker: the select takes trade, ok := <-tradeChan; the tracker's
\* UpdateMarketActivity sets the market's LastUpdate
WorkerRecv(w) ==
  /\ pc[w] = "idle"
  /\ wtrade[w] = ZeroTrade
  /\ tradeChan # << >>
  /\ wtrade' = [wtrade EXCEPT ![w] = Head(tradeChan)]
  /\ tradeChan' = Tail(tradeChan)
  /\ recvLog' = [recvLog EXCEPT ![w] = Append(@, Head(tradeChan))]
  /\ marketActivity' = Put(marketActivity, Head(tradeChan).MarketID, now)
  /\ UNCHANGED <<now, lastPrices, mu, trades, bmu, pc, arg, priceRead,
                 suspects, rec, count, clpc, clNow, calls, cleanups, ticks,
                 recorded, priceLog, cleanLog, enrichVars, listenerVars,
                 dropped, ppc, pbatch, polls, suspectChan, suspectDrops,
                 offered, detectLog, extraVars>>

\* a worker that passes a nonce of 0
WorkerDetectNonceZero(w) ==
  /\ wtrade[w] # ZeroTrade
  /\ DetectCall(w, wtrade[w], 0)
  /\ detectLog' =
       [detectLog EXCEPT ![w] = Append(@, [trade |-> wtrade[w], nonce |-> 0])]
  /\ UNCHANGED <<marketActivity, tradeChan, dropped, ppc, pbatch, polls,
                 suspectChan, suspectDrops, wtrade, offered, recvLog,
                 extraVars>>

\* worker: suspects := detect.Detect(trade, -1)
WorkerDetect(w) ==
  /\ wtrade[w] # ZeroTrade
  /\ DetectCall(w, wtrade[w], -1)
  /\ detectLog' =
       [detectLog EXCEPT ![w] = Append(@, [trade |-> wtrade[w], nonce |-> -1])]
  /\ UNCHANGED <<marketActivity, tradeChan, dropped, ppc, pbatch, polls,
                 suspectChan, suspectDrops, wtrade, offered, recvLog,
                 extraVars>>

\* worker: the non-blocking send of the next suspect; on a full channel the
\* default case logs suspect_channel_full
WorkerOffer(w) ==
  /\ pc[w] = "return"
  /\ offered[w] < Len(suspects[w])
  /\ suspectChan' = TrySend(suspectChan, SuspectCap, suspects[w][offered[w] + 1])
  /\ suspectDrops' = IF Len(suspectChan) < SuspectCap THEN suspectDrops
                     ELSE Append(suspectDrops, suspects[w][offered[w] + 1])
  /\ offered' = [offered EXCEPT ![w] = @ + 1]
  /\ UNCHANGED <<detectorVars, enrichVars, listenerVars, tradeChan, dropped,
                 ppc, pbatch, polls, wtrade, recvLog, detectLog, extraVars>>

\* worker: the range over suspects ends; back to the select
WorkerLoop(w) ==
  /\ pc[w] = "return"
  /\ offered[w] = Len(suspects[w])
  /\ pc' = [pc EXCEPT ![w] = "idle"]
  /\ arg' = [arg EXCEPT ![w] = ZeroArg]
  /\ priceRead' = [priceRead EXCEPT ![w] = ZeroPriceRead]
  /\ suspects' = [suspects EXCEPT ![w] = << >>]
  /\ rec' = [rec EXCEPT ![w] = ZeroRec]
  /\ count' = [count EXCEPT ![w] = 0]
  /\ wtrade' = [wtrade EXCEPT ![w] = ZeroTrade]
  /\ offered' = [offered EXCEPT ![w] = 0]
  /\ UNCHANGED <<now, lastPrices, mu, trades, bmu, marketActivity, clpc,
                 clNow, calls, cleanups, ticks, recorded, priceLog,
                 cleanLog, enrichVars, listenerVars, tradeChan, dropped,
                 ppc, pbatch, polls, suspectChan, suspectDrops, recvLog,
                 detectLog, extraVars>>

\* worker: the select takes ctx.Done()
WorkerExit(w) ==
  /\ pc[w] = "idle"
  /\ wtrade[w] = ZeroTrade
  /\ ctxDone
  /\ pc' = [pc EXCEPT ![w] = "exited"]
  /\ UNCHANGED <<now, lastPrices, mu, trades, bmu, marketActivity, arg,
                 priceRead, suspects, rec, count, clpc, clNow, calls,
                 cleanups, ticks, recorded, priceLog, cleanLog, enrichVars,
                 listenerVars, queueVars, extraVars>>

NextWorker ==
  \/ StartRunLoop
  \/ StartHeartbeat
  \/ Cancel
  \/ IngestSend
  \/ \E w \in Callers : WorkerRecv(w)
  \/ \E w \in Callers : WorkerDetect(w)
  \/ \E w \in Callers : DetectPriceRead(w)
  \/ \E w \in Callers : DetectPriceWrite(w)
  \/ \E w \in Callers : RecordLock(w)
  \/ \E w \in Callers : RecordWrite(w)
  \/ \E w \in Callers : WorkerOffer(w)
  \/ \E w \in Callers : WorkerLoop(w)
  \/ \E w \in Callers : WorkerExit(w)

SpecWorker == Init /\ [][NextWorker]_vars

\* ------------------------------------ the poller alone, with the clock

NextPoller ==
  \/ StartRunLoop
  \/ StartHeartbeat
  \/ Cancel
  \/ PollerStart
  \/ \E ok \in BOOLEAN, n \in PollBatches : PollFetch(ok, n)
  \/ PollerSend
  \/ PollReturn
  \/ PollerTick
  \/ PollerExit
  \/ PollClock
  \/ QueueReceive

SpecPoller == Init /\ [][NextPoller]_vars

\* ------------------------ the run loop alone, over many reconnections

\* the dials explored when the backoff is followed to its ceiling
BackoffDial ==
  /\ attempts < MaxBackoffAttempts
  /\ \E ok \in BOOLEAN : DialContext(ok)

NextReconnect ==
  \/ StartRunLoop
  \/ LoopTop
  \/ BackoffDial
  \/ SetConn
  \/ \E ok \in BOOLEAN : Subscribe(ok)
  \/ ConnectUpdateLastMsg
  \/ ReadSelect
  \/ ReadConn
  \/ ReadMessageError
  \/ CloseAfterRead
  \/ CheckStop
  \/ WaitBackoffBegin
  \/ WaitBackoffEnd

SpecReconnect == Init /\ [][NextReconnect]_vars

\* ------------------------------------------------------ float64

\* A float64 is a finite value n/d in lowest terms with d > 0, or NaN, +Inf
\* or -Inf. Exact rationals stand for the rounding of float64.
RECURSIVE GCD(_, _)
GCD(a, b) == IF b = 0 THEN a ELSE GCD(b, a % b)

Fin(n, d) ==
  LET g == GCD(Abs(n), d)
  IN  [cls |-> "fin", n |-> n \div g, d |-> d \div g]

NaN == [cls |-> "nan", n |-> 0, d |-> 1]

PosInf == [cls |-> "+inf", n |-> 1, d |-> 1]

NegInf == [cls |-> "-inf", n |-> 0 - 1, d |-> 1]

FZero == Fin(0, 1)

\* x == 0
FIsZero(x) == x = FZero

\* x > k, for an integer k
FGreater(x, k) ==
  \/ x.cls = "+inf"
  \/ /\ x.cls = "fin"
     /\ \/ x.n \div x.d > k
        \/ x.n \div x.d = k /\ x.n % x.d # 0

\* x >= 0
FNonNegative(x) == x.cls = "+inf" \/ (x.cls = "fin" /\ x.n >= 0)

\* x / k, for an integer k > 0
FDiv(x, k) == IF x.cls = "fin" THEN Fin(x.n, x.d * k) ELSE x

\* the sign of x: -1, 0 or 1 (0 for NaN)
FSign(x) ==
  CASE x.cls = "+inf" -> 1
    [] x.cls = "-inf" -> 0 - 1
    [] x.cls = "nan" -> 0
    [] OTHER -> IF x.n > 0 THEN 1 ELSE IF x.n < 0 THEN 0 - 1 ELSE 0

\* x * y
FMul(x, y) ==
  IF x.cls = "nan" \/ y.cls = "nan" THEN NaN
  ELSE IF x.cls = "fin" /\ y.cls = "fin" THEN Fin(x.n * y.n, x.d * y.d)
  ELSE IF FSign(x) * FSign(y) = 0 THEN NaN
  ELSE IF FSign(x) * FSign(y) > 0 THEN PosInf ELSE NegInf

\* the size and price strings explored
NumberStrings ==
  {"", "0", "100", "0.5", "0.058", "60000", "1000000", "1000001",
   "2000000", "-5", "-2000000", "abc", "12abc", "1e999", "NaN"}

\* the price strings explored
PriceStrings == {"", "0", "0.5", "0.058", "100", "-5", "abc", "12abc", "1e999", "NaN"}

\* strconv.ParseFloat(s, 64) on these strings: the value and whether err is
\* not nil. A string that is no number gives 0 and a syntax error, a number
\* out of range gives an infinity and a range error, "NaN" gives NaN.
StrconvParseFloat(s) ==
  CASE s = "0" -> [f |-> Fin(0, 1), err |-> FALSE]
    [] s = "100" -> [f |-> Fin(100, 1), err |-> FALSE]
    [] s = "0.5" -> [f |-> Fin(5, 10), err |-> FALSE]
    [] s = "0.058" -> [f |-> Fin(58, 1000), err |-> FALSE]
    [] s = "60000" -> [f |-> Fin(60000, 1), err |-> FALSE]
    [] s = "1000000" -> [f |-> Fin(1000000, 1), err |-> FALSE]
    [] s = "1000001" -> [f |-> Fin(1000001, 1), err |-> FALSE]
    [] s = "2000000" -> [f |-> Fin(2000000, 1), err |-> FALSE]
    [] s = "-5" -> [f |-> Fin(0 - 5, 1), err |-> FALSE]
    [] s = "-2000000" -> [f |-> Fin(0 - 2000000, 1), err |-> FALSE]
    [] s = "NaN" -> [f |-> NaN, err |-> FALSE]
    [] s = "1e999" -> [f |-> PosInf, err |-> TRUE]
    [] OTHER -> [f |-> FZero, err |-> TRUE]

\* fmt.Sscanf(s, "%f", &f) on these strings: it scans the longest prefix
\* that looks like a number and leaves f at 0 when that prefix does not
\* parse
SscanfFloat(s) ==
  CASE s = "12abc" -> Fin(12, 1)
    [] s # "12abc" /\ StrconvParseFloat(s).err -> FZero
    [] OTHER -> StrconvParseFloat(s).f

\* parseFloat: f, _ := strconv.ParseFloat(s, 64); return f
parseFloat(s) ==
  IF s = "" THEN FZero ELSE StrconvParseFloat(s).f

\* parseFloatSafe (trades_api.go)
parseFloatSafe(s) ==
  IF s = "" THEN FZero ELSE SscanfFloat(s)

\* calculateValueUSD
calculateValueUSD(sizeStr, price) ==
  LET size == parseFloat(sizeStr)
  IN  IF FIsZero(size) THEN FZero
      ELSE IF FGreater(size, 1000000) THEN FDiv(size, 1000000)
      ELSE size

\* ------------------------------------------------ encoding/json

\* the keys of the JSON objects explored
Keys ==
  {"event_type", "last_trade_price", "market", "asset_id", "timestamp",
   "type", "price", "size", "maker", "maker_address", "data", "trades",
   "id", "trade_id"}

\* A JSON value: a string, a number, null, an array, an object, or the
\* absence of a key (JAbsent); JInvalid is a payload that is not JSON.
JValue(t, s, elems, fields) ==
  [t |-> t, s |-> s, elems |-> elems, fields |-> fields]

JAbsent == JValue("absent", "", << >>, << >>)

JInvalid == JValue("invalid", "", << >>, << >>)

JNull == JValue("null", "", << >>, << >>)

JNum == JValue("num", "", << >>, << >>)

JStr(s) == JValue("str", s, << >>, << >>)

JArr(elems) == JValue("arr", "", elems, << >>)

\* the object with the members of the record f
JObj(f) ==
  JValue("obj", "", << >>,
         [k \in Keys |-> IF k \in DOMAIN f THEN f[k] ELSE JAbsent])

\* json.Unmarshal into a string field: a string is stored, null and a
\* missing key leave the field alone, anything else is an
\* UnmarshalTypeError
UnmarshalString(v) ==
  [s |-> IF v.t = "str" THEN v.s ELSE "",
   ok |-> v.t \in {"absent", "null", "str"}]

\* the member k of v decoded into a string field of a struct
Field(v, k) ==
  IF v.t = "obj" THEN UnmarshalString(v.fields[k]) ELSE [s |-> "", ok |-> TRUE]

\* json.Unmarshal into a struct whose fields of keys ks are strings: an
\* object is decoded field by field and the first type error is returned at
\* the end, null leaves the struct alone, anything else is an error
StructOk(v, ks) ==
  /\ v.t \in {"obj", "null", "absent"}
  /\ \A k \in ks : Field(v, k).ok

\* BookEvent
BookKeys == {"market", "asset_id", "timestamp", "event_type", "last_trade_price"}

UnmarshalBookEvent(v) ==
  [Market |-> Field(v, "market").s,
   AssetID |-> Field(v, "asset_id").s,
   Timestamp |-> Field(v, "timestamp").s,
   EventType |-> Field(v, "event_type").s,
   LastTradePrice |-> Field(v, "last_trade_price").s]

\* json.Unmarshal(data, &bookEvents)
UnmarshalBookEvents(v) ==
  [events |-> IF v.t = "arr"
                THEN [i \in 1..Len(v.elems) |-> UnmarshalBookEvent(v.elems[i])]
                ELSE << >>,
   ok |-> \/ v.t = "null"
          \/ /\ v.t = "arr"
             /\ \A i \in 1..Len(v.elems) :
                  v.elems[i].t # "absent" /\ StructOk(v.elems[i], BookKeys)]

\* WSMessage: Data is a json.RawMessage, which takes any value
EnvelopeKeys == {"type"}

UnmarshalWSMessage(v) ==
  [Type |-> Field(v, "type").s,
   Data |-> IF v.t = "obj" THEN v.fields["data"] ELSE JAbsent]

\* LastTradePriceEvent
LastTradePriceKeys == {"type", "asset_id", "price", "size", "maker"}

UnmarshalLastTradePriceEvent(v) ==
  [AssetID |-> Field(v, "asset_id").s,
   Price |-> Field(v, "price").s,
   Size |-> Field(v, "size").s,
   Maker |-> Field(v, "maker").s]

\* TradeData
TradeDataKeys ==
  {"id", "trade_id", "market", "asset_id", "maker", "maker_address", "size",
   "price", "timestamp"}

UnmarshalTradeData(v) ==
  [ID |-> Field(v, "id").s,
   TradeID |-> Field(v, "trade_id").s,
   Market |-> Field(v, "market").s,
   AssetID |-> Field(v, "asset_id").s,
   Maker |-> Field(v, "maker").s,
   MakerAddress |-> Field(v, "maker_address").s,
   Size |-> Field(v, "size").s,
   Price |-> Field(v, "price").s]

\* json.Unmarshal(data, &tradesArray), and the Trades field of a TradeEvent
UnmarshalTradesArray(v) ==
  [trades |-> IF v.t = "arr"
                THEN [i \in 1..Len(v.elems) |-> UnmarshalTradeData(v.elems[i])]
                ELSE << >>,
   ok |-> \/ v.t \in {"null", "absent"}
          \/ /\ v.t = "arr"
             /\ \A i \in 1..Len(v.elems) : StructOk(v.elems[i], TradeDataKeys)]

\* json.Unmarshal(data, &event) for a TradeEvent: the trades member and the
\* embedded TradeData
UnmarshalTradeEvent(v) ==
  [Trades |-> IF v.t = "obj" THEN UnmarshalTradesArray(v.fields["trades"]).trades
              ELSE << >>,
   TradeData |-> UnmarshalTradeData(v),
   ok |-> /\ StructOk(v, TradeDataKeys)
          /\ v.t = "obj" => UnmarshalTradesArray(v.fields["trades"]).ok]

\* -------------------------------------------- ingest/parser.go

\* the store.Trade the parser and the poller build: the fields the
\* detector reads, Size and TradeID (ID, Side, Outcome, TakerAddress,
\* TransactionHash and Timestamp are copied or generated and read by no
\* rule)
ParsedTrade(market, asset, maker, size, price, value, tradeID) ==
  [MarketID |-> market, AssetID |-> asset, MakerAddress |-> maker,
   Size |-> size, Price |-> price, ValueUSD |-> value, TradeID |-> tradeID]

\* coalesce, for two values
coalesce(a, b) == IF a # "" THEN a ELSE b

\* a parseBookEvents that skips no event
parseBookEventsKeepAll(events) ==
  [i \in 1..Len(events) |->
     ParsedTrade(events[i].Market, events[i].AssetID, "", "book_update",
                 parseFloat(events[i].LastTradePrice), FZero, "")]

\* parseBookEvents: an event with a last_trade_price that is empty, "0" or
\* parses to 0 is skipped; the others give a trade of value 0 and size
\* "book_update"
parseBookEvents(events) ==
  LET usable(event) ==
        /\ event.LastTradePrice # ""
        /\ event.LastTradePrice # "0"
        /\ ~FIsZero(parseFloat(event.LastTradePrice))
      kept == SelectSeq(events, usable)
  IN  [i \in 1..Len(kept) |->
         ParsedTrade(kept[i].Market, kept[i].AssetID, "", "book_update",
                     parseFloat(kept[i].LastTradePrice), FZero, "")]

\* parseLastTradePrice: an error of Unmarshal is returned; an event without
\* asset_id gives nil, nil
parseLastTradePrice(data) ==
  LET event == UnmarshalLastTradePriceEvent(data)
      price == parseFloat(event.Price)
  IN  IF ~StructOk(data, LastTradePriceKeys)
        THEN [trades |-> << >>, err |-> TRUE]
      ELSE IF event.AssetID = ""
        THEN [trades |-> << >>, err |-> FALSE]
      ELSE [trades |-> <<ParsedTrade("", event.AssetID, event.Maker,
                                     event.Size, price,
                                     calculateValueUSD(event.Size, price),
                                     "")>>,
            err |-> FALSE]

\* convertTrades
convertTrades(data) ==
  [i \in 1..Len(data) |->
     LET td == data[i]
         price == parseFloat(td.Price)
     IN  ParsedTrade(td.Market, td.AssetID, coalesce(td.MakerAddress, td.Maker),
                     td.Size, price, calculateValueUSD(td.Size, price),
                     coalesce(td.TradeID, td.ID))]

\* parseTrades: the array of trades, then the event with a trades array or
\* an identified single trade, then the single trade; it returns no error
parseTrades(data) ==
  LET tradesArray == UnmarshalTradesArray(data)
      event == UnmarshalTradeEvent(data)
      single == UnmarshalTradeData(data)
  IN  IF data.t = "absent" THEN << >>
      ELSE IF tradesArray.ok /\ Len(tradesArray.trades) > 0
        THEN convertTrades(tradesArray.trades)
      ELSE IF event.ok /\ Len(event.Trades) > 0
        THEN convertTrades(event.Trades)
      ELSE IF event.ok /\ (event.TradeData.ID # "" \/ event.TradeData.TradeID # "")
        THEN convertTrades(<<event.TradeData>>)
      ELSE IF /\ StructOk(data, TradeDataKeys)
              /\ (single.ID # "" \/ single.TradeID # "" \/ single.Market # "")
        THEN convertTrades(<<single>>)
      ELSE << >>

\* the result of ParseMessage: the trades, the message type, and whether
\* the error is not nil
ParseResult(result, msgType, err) ==
  [trades |-> result, msgType |-> msgType, err |-> err]

\* ParseMessage
ParseMessage(data) ==
  LET bookEvents == UnmarshalBookEvents(data)
      singleBook == UnmarshalBookEvent(data)
      msg == UnmarshalWSMessage(data)
  IN  IF /\ bookEvents.ok
         /\ Len(bookEvents.events) > 0
         /\ bookEvents.events[1].EventType \in {"book", "price_change"}
        THEN ParseResult(parseBookEvents(bookEvents.events), "book_array", FALSE)
      ELSE IF StructOk(data, BookKeys) /\ singleBook.EventType # ""
        THEN ParseResult(parseBookEvents(<<singleBook>>), singleBook.EventType,
                         FALSE)
      ELSE IF ~StructOk(data, EnvelopeKeys)
        THEN ParseResult(<< >>, "", TRUE)
      ELSE IF msg.Type = "last_trade_price"
        THEN ParseResult(parseLastTradePrice(data).trades, msg.Type,
                         parseLastTradePrice(data).err)
      ELSE IF msg.Type = "trade"
        THEN ParseResult(parseTrades(msg.Data), msg.Type, FALSE)
      ELSE ParseResult(<< >>, msg.Type, FALSE)

\* ------------------------- ingest/trades_api.go: convertTrade

\* the TradeAPIResponse explored: market, asset and maker fixed, every size
\* and price string
ApiResponse(size, price) ==
  [ID |-> "t1", Market |-> "m1", AssetID |-> "a1", MakerAddress |-> "0xA",
   Size |-> size, Price |-> price, TradeID |-> "t1"]

\* convertTrade: valueUSD := price * size
convertTrade(apiTrade) ==
  LET price == parseFloatSafe(apiTrade.Price)
      size == parseFloatSafe(apiTrade.Size)
  IN  ParsedTrade(apiTrade.Market, apiTrade.AssetID, apiTrade.MakerAddress,
                  apiTrade.Size, price, FMul(price, size), apiTrade.TradeID)

\* ------------------------------------- the payloads explored

\* an orderbook-snapshot event
BookEventJSON(eventType, lastTradePrice) ==
  JObj([event_type |-> JStr(eventType), market |-> JStr("m1"),
        asset_id |-> JStr("a1"), timestamp |-> JStr("1700000000"),
        last_trade_price |-> JStr(lastTradePrice)])

\* a raw trade object
TradeJSON(id, size, price) ==
  JObj([id |-> JStr(id), market |-> JStr("m1"), asset_id |-> JStr("a1"),
        maker |-> JStr("0xA"), size |-> JStr(size), price |-> JStr(price)])

\* an envelope of type "trade" around data
TradeEnvelope(data) == JObj([type |-> JStr("trade"), data |-> data])

\* a last_trade_price event
LastTradePriceJSON(asset, size, price) ==
  JObj([type |-> JStr("last_trade_price"), asset_id |-> asset,
        size |-> size, price |-> price, maker |-> JStr("0xA")])

BookPayloads ==
  {JArr(<<BookEventJSON("book", "0.058")>>),
   JArr(<<BookEventJSON("book", "0.058"), BookEventJSON("book", ""),
          BookEventJSON("price_change", "0.5")>>),
   JArr(<<BookEventJSON("price_change", "0"), BookEventJSON("book", "abc")>>),
   JArr(<<BookEventJSON("tick_size_change", "0.5")>>),
   JArr(<<BookEventJSON("price_change", "-5"), BookEventJSON("book", "12abc"),
          BookEventJSON("book", "1e999")>>),
   JArr(<<BookEventJSON("book", "0.5"), JNum>>),
   JArr(<<JObj([event_type |-> JStr("book"), timestamp |-> JNum,
               last_trade_price |-> JStr("0.5")])>>),
   JArr(<< >>),
   BookEventJSON("book", "0.5"),
   BookEventJSON("book", ""),
   JObj([event_type |-> JStr("last_trade_price"),
         type |-> JStr("last_trade_price"), asset_id |-> JStr("a1"),
         size |-> JStr("100"), price |-> JStr("0.5")]),
   JObj([event_type |-> JStr("book"), type |-> JStr("trade"),
         data |-> TradeJSON("t1", "100", "0.5")])}

EnvelopePayloads ==
  {LastTradePriceJSON(JAbsent, JStr("100"), JStr("0.5")),
   LastTradePriceJSON(JStr(""), JStr("100"), JStr("0.5")),
   LastTradePriceJSON(JStr("a1"), JStr("100"), JNum),
   LastTradePriceJSON(JStr("a1"), JNum, JStr("0.5")),
   LastTradePriceJSON(JNum, JStr("100"), JStr("0.5")),
   TradeEnvelope(JAbsent),
   TradeEnvelope(JNull),
   TradeEnvelope(JNum),
   TradeEnvelope(JStr("trade")),
   TradeEnvelope(JArr(<< >>)),
   TradeEnvelope(JArr(<<JNum>>)),
   TradeEnvelope(JArr(<<TradeJSON("t1", "100", "0.5"),
                        TradeJSON("t2", "60000", "0.5")>>)),
   TradeEnvelope(JObj([trades |-> JArr(<<TradeJSON("t1", "100", "0.5"),
                                         TradeJSON("", "2000000", "0.5")>>)])),
   TradeEnvelope(JObj([trades |-> JNum, id |-> JStr("t1")])),
   TradeEnvelope(JObj([trades |-> JArr(<< >>), trade_id |-> JStr("t1")])),
   TradeEnvelope(JObj([market |-> JStr("m1"), size |-> JStr("100")])),
   TradeEnvelope(JObj([size |-> JStr("100"), price |-> JStr("0.5")])),
   TradeEnvelope(JObj([id |-> JStr("t1"), size |-> JNum])),
   TradeEnvelope(JObj(<< >>)),
   JObj([type |-> JStr("subscribed")]),
   JObj([type |-> JStr("error"), data |-> JStr("bad request")]),
   JObj([type |-> JNum]),
   JObj([type |-> JNull, data |-> TradeJSON("t1", "100", "0.5")]),
   JObj(<< >>),
   JNull, JNum, JStr("PONG"), JInvalid}

\* a raw trade and a last_trade_price event for every size and price string
NumberPayloads ==
  {TradeEnvelope(TradeJSON("t1", size, price)) :
     size \in NumberStrings, price \in PriceStrings}
  \cup {LastTradePriceJSON(JStr("a1"), JStr(size), JStr(price)) :
          size \in NumberStrings, price \in PriceStrings}

Payloads == BookPayloads \cup EnvelopePayloads \cup NumberPayloads

ApiResponses ==
  {ApiResponse(size, price) : size \in NumberStrings, price \in PriceStrings}

\* handleMessage: trades, msgType, err := ParseMessage(data)
ParseMessageCall ==
  /\ parseCalls < MaxParseCalls
  /\ parseCalls' = parseCalls + 1
  /\ \E data \in Payloads :
       parsed' = [called |-> TRUE, data |-> data,
                  trades |-> ParseMessage(data).trades,
                  msgType |-> ParseMessage(data).msgType,
                  err |-> ParseMessage(data).err]
  /\ UNCHANGED <<detectorVars, enrichVars, listenerVars, queueVars, converted,
                 pollVars, shutdownVars>>

\* fetchRecentTrades: trade := p.convertTrade(apiTrade)
ConvertTradeCall ==
  /\ parseCalls < MaxParseCalls
  /\ parseCalls' = parseCalls + 1
  /\ \E apiTrade \in ApiResponses :
       converted' = [called |-> TRUE, apiTrade |-> apiTrade,
                     trade |-> convertTrade(apiTrade)]
  /\ UNCHANGED <<detectorVars, enrichVars, listenerVars, queueVars, parsed,
                 pollVars, shutdownVars>>

NextParser ==
  \/ ParseMessageCall
  \/ ConvertTradeCall

SpecParser == Init /\ [][NextParser]_vars

\* --------------------- the orchestrator: the TUI, shutdown and the drain

\* main, cfg.EnableTUI: app := ui.NewApp(tradeChan, suspectChan, tracker);
\* go app.Run(), which starts go a.processTrades()
StartTUI ==
  /\ mpc = "running"
  /\ ~ctxDone
  /\ uipc = "new"
  /\ uipc' = "running"
  /\ UNCHANGED <<detectorVars, enrichVars, listenerVars, queueVars,
                 parserVars, pollVars, uiDone, uiLog, cpc, drained, timeout,
                 drainLog, drainedTrades>>

\* App.processTrades: the select takes trade, ok := <-a.tradeChan and the
\* trade is added to the trades table
ProcessTrades ==
  /\ uipc = "running"
  /\ tradeChan # << >>
  /\ uiLog' = Append(uiLog, Head(tradeChan))
  /\ tradeChan' = Tail(tradeChan)
  /\ UNCHANGED <<detectorVars, enrichVars, listenerVars, dropped, ppc,
                 pbatch, polls, suspectChan, suspectDrops, wtrade, offered,
                 recvLog, detectLog, parserVars, pollVars, uipc, uiDone, cpc,
                 drained, timeout, drainLog, drainedTrades>>

\* main, on the signal: app.Stop(), which calls a.cancel()
AppStop ==
  /\ mpc = "running"
  /\ uipc # "new"
  /\ ~uiDone
  /\ uiDone' = TRUE
  /\ UNCHANGED <<detectorVars, enrichVars, listenerVars, queueVars,
                 parserVars, pollVars, uipc, uiLog, cpc, drained, timeout,
                 drainLog, drainedTrades>>

\* App.processTrades: the select takes a.ctx.Done()
ProcessTradesExit ==
  /\ uipc = "running"
  /\ uiDone
  /\ uipc' = "exited"
  /\ UNCHANGED <<detectorVars, enrichVars, listenerVars, queueVars,
                 parserVars, pollVars, uiDone, uiLog, cpc, drained, timeout,
                 drainLog, drainedTrades>>

\* main's goroutine of app.Run(): cancel() when Run returns an error
RunFailed ==
  /\ uipc # "new"
  /\ Cancel

\* main: cancel(), after app.Stop() when the TUI runs
MainCancel ==
  /\ uipc # "new" => uiDone
  /\ Cancel

\* main: listener.Stop(), after cancel()
MainStop ==
  /\ ctxDone
  /\ uipc # "new" => uiDone
  /\ StopClose

\* a cleanup goroutine whose select has no ctx.Done() case
CleanupIgnoreDone ==
  /\ cpc = "select"
  /\ ctxDone
  /\ UNCHANGED vars

\* main's cleanup goroutine: the select takes ctx.Done()
CleanupExit ==
  /\ cpc = "select"
  /\ ctxDone
  /\ cpc' = "exited"
  /\ UNCHANGED <<detectorVars, enrichVars, listenerVars, queueVars,
                 parserVars, pollVars, uipc, uiDone, uiLog, drained, timeout,
                 drainLog, drainedTrades>>

\* main: drainTrades(tradeChan), after listener.Stop() returned;
\* timeout := time.After(5 * time.Second); drained := 0
DrainStart ==
  /\ mpc = "stopped"
  /\ ctxDone
  /\ mpc' = "drain"
  /\ drained' = 0
  /\ timeout' = FALSE
  /\ UNCHANGED <<detectorVars, enrichVars, conn, openConns, dialed, backoff,
                 lastMsg, stopChan, ctxDone, wg, lpc, rconn, pending, hpc,
                 hlastMsg, hconn, attempts, failure, waits, failedConnects,
                 subscribed, pinged, arrived, queueVars, parserVars,
                 pollVars, uipc, uiDone, uiLog, cpc, drainLog,
                 drainedTrades>>

\* the five seconds of the timer pass
DrainTimer ==
  /\ mpc = "drain"
  /\ ~timeout
  /\ timeout' = TRUE
  /\ UNCHANGED <<detectorVars, enrichVars, listenerVars, queueVars,
                 parserVars, pollVars, uipc, uiDone, uiLog, cpc, drained,
                 drainLog, drainedTrades>>

\* drainTrades: the select takes <-tradeChan; drained++
DrainReceive ==
  /\ mpc = "drain"
  /\ tradeChan # << >>
  /\ tradeChan' = Tail(tradeChan)
  /\ drained' = drained + 1
  /\ drainedTrades' = Append(drainedTrades, Head(tradeChan))
  /\ UNCHANGED <<detectorVars, enrichVars, listenerVars, dropped, ppc,
                 pbatch, polls, suspectChan, suspectDrops, wtrade, offered,
                 recvLog, detectLog, parserVars, pollVars, uipc, uiDone,
                 uiLog, cpc, timeout, drainLog>>

\* a drain that logs its count whatever it is
DrainReturnLogAlways ==
  /\ mpc = "drain"
  /\ timeout \/ tradeChan = << >>
  /\ drainLog' = drained
  /\ mpc' = "done"
  /\ UNCHANGED <<detectorVars, enrichVars, conn, openConns, dialed, backoff,
                 lastMsg, stopChan, ctxDone, wg, lpc, rconn, pending, hpc,
                 hlastMsg, hconn, attempts, failure, waits, failedConnects,
                 subscribed, pinged, arrived, queueVars, parserVars,
                 pollVars, uipc, uiDone, uiLog, cpc, drained, timeout,
                 drainedTrades>>

\* drainTrades: the select takes <-timeout, or the default case when neither
\* channel is ready; both log trades_drained if drained > 0 and return
DrainReturn ==
  /\ mpc = "drain"
  /\ timeout \/ tradeChan = << >>
  /\ drainLog' = IF drained > 0 THEN drained ELSE drainLog
  /\ mpc' = "done"
  /\ UNCHANGED <<detectorVars, enrichVars, conn, openConns, dialed, backoff,
                 lastMsg, stopChan, ctxDone, wg, lpc, rconn, pending, hpc,
                 hlastMsg, hconn, attempts, failure, waits, failedConnects,
                 subscribed, pinged, arrived, queueVars, parserVars,
                 pollVars, uipc, uiDone, uiLog, cpc, drained, timeout,
                 drainedTrades>>

\* the elements of a sequence
Range(s) == {s[i] : i \in DOMAIN s}

\* the messages explored by the pipeline: while the parser has returned fewer
\* than MaxPipelineTrades trades
PipelineRead ==
  \E m \in Messages :
    /\ arrived + m.n <= MaxPipelineTrades
    /\ ReadMessage(m)

\* the pipeline fed by the Listener, with the TUI, up to the drain's return
NextPipeline ==
  \/ StartRunLoop
  \/ StartHeartbeat
  \/ StartTUI
  \/ AppStop
  \/ RunFailed
  \/ MainCancel
  \/ MainStop
  \/ StopCloseConnection
  \/ StopWait
  \/ DrainStart
  \/ DrainTimer
  \/ DrainReceive
  \/ DrainReturn
  \/ LoopTop
  \/ FairDial
  \/ SetConn
  \/ \E ok \in BOOLEAN : Subscribe(ok)
  \/ ConnectUpdateLastMsg
  \/ ReadSelect
  \/ ReadConn
  \/ ReadMessageError
  \/ PipelineRead
  \/ ReadUpdateLastMsg
  \/ HandleDispatch
  \/ HandleReturn
  \/ CloseAfterRead
  \/ CheckStop
  \/ WaitBackoffBegin
  \/ WaitBackoffEnd
  \/ HeartbeatExit
  \/ \E w \in Callers : WorkerRecv(w)
  \/ \E w \in Callers : WorkerDetect(w)
  \/ \E w \in Callers : DetectPriceRead(w)
  \/ \E w \in Callers : DetectPriceWrite(w)
  \/ \E w \in Callers : RecordLock(w)
  \/ \E w \in Callers : RecordWrite(w)
  \/ \E w \in Callers : WorkerOffer(w)
  \/ \E w \in Callers : WorkerLoop(w)
  \/ \E w \in Callers : WorkerExit(w)
  \/ ProcessTrades
  \/ ProcessTradesExit

\* main runs drainTrades, whose timer fires after five seconds
DrainFairness == WF_vars(DrainTimer \/ DrainReturn)

SpecPipeline == Init /\ [][NextPipeline]_vars /\ DrainFairness

\* the tasks under cancellation: the Listener's two, the poller with its
\* first fetch, the workers, the cleanup goroutine
NextShutdown ==
  \/ StartRunLoop
  \/ StartHeartbeat
  \/ (~ctxDone /\ PollerStart)
  \/ MainCancel
  \/ LoopTop
  \/ FairDial
  \/ SetConn
  \/ \E ok \in BOOLEAN : Subscribe(ok)
  \/ ConnectUpdateLastMsg
  \/ ReadSelect
  \/ ReadConn
  \/ ReadMessageError
  \/ ListenerRead
  \/ ReadUpdateLastMsg
  \/ HandleReturn
  \/ CloseAfterRead
  \/ CheckStop
  \/ WaitBackoffBegin
  \/ WaitBackoffEnd
  \/ HeartbeatExit
  \/ \E ok \in BOOLEAN, n \in PollBatches : PollFetch(ok, n)
  \/ PollerSend
  \/ PollReturn
  \/ PollerExit
  \/ \E w \in Callers : WorkerRecv(w)
  \/ \E w \in Callers : WorkerDetect(w)
  \/ \E w \in Callers : DetectPriceRead(w)
  \/ \E w \in Callers : DetectPriceWrite(w)
  \/ \E w \in Callers : RecordLock(w)
  \/ \E w \in Callers : RecordWrite(w)
  \/ \E w \in Callers : WorkerOffer(w)
  \/ \E w \in Callers : WorkerLoop(w)
  \/ \E w \in Callers : WorkerExit(w)
  \/ CleanupExit

\* a step of the poller between two selects, of a worker between two
PollStep ==
  \/ \E ok \in BOOLEAN, n \in PollBatches : PollFetch(ok, n)
  \/ PollerSend
  \/ PollReturn

WorkerStep(w) ==
  \/ WorkerDetect(w)
  \/ DetectPriceRead(w)
  \/ DetectPriceWrite(w)
  \/ RecordLock(w)
  \/ RecordWrite(w)
  \/ WorkerOffer(w)
  \/ WorkerLoop(w)

\* Every goroutine is scheduled; the fetch returns within the client's
\* timeout and the sends never block. A select whose ctx.Done() case is
\* ready takes it after finitely many other cases.
ShutdownFairness ==
  /\ WF_vars(RunLoopStep)
  /\ SF_vars(HeartbeatExit)
  /\ WF_vars(PollStep)
  /\ SF_vars(PollerExit)
  /\ \A w \in Callers : WF_vars(WorkerStep(w))
  /\ \A w \in Callers : SF_vars(WorkerExit(w))
  /\ SF_vars(CleanupExit)

SpecShutdown == Init /\ [][NextShutdown]_vars /\ ShutdownFairness

\* ----------------- the Listener with trades, Stop and the clock

NextStop ==
  \/ StartRunLoop
  \/ StartHeartbeat
  \/ Cancel
  \/ StopClose
  \/ StopCloseConnection
  \/ StopWait
  \/ LoopTop
  \/ FairDial
  \/ SetConn
  \/ \E ok \in BOOLEAN : Subscribe(ok)
  \/ ConnectUpdateLastMsg
  \/ ReadSelect
  \/ ReadConn
  \/ ReadMessageError
  \/ PipelineRead
  \/ ReadUpdateLastMsg
  \/ HandleDispatch
  \/ HandleReturn
  \/ CloseAfterRead
  \/ CheckStop
  \/ WaitBackoffBegin
  \/ WaitBackoffEnd
  \/ HeartbeatExit
  \/ HeartbeatTick
  \/ CheckHeartbeatElapsed
  \/ \E ok \in BOOLEAN : Ping(ok)
  \/ PingFailedClose
  \/ Elapse
  \/ QueueReceive

SpecStop == Init /\ [][NextStop]_vars

\* ------------------------------------------- the writes on a connection

\* subscribe: l.connMu.Lock() with l.conn set; the WriteJSON that follows is
\* made with connMu held
SubscribeWriteBegin ==
  /\ lpc = "subscribe"
  /\ conn # NoConn
  /\ lpc' = "subscribing"
  /\ UNCHANGED <<detectorVars, enrichVars, conn, openConns, dialed, backoff,
                 lastMsg, stopChan, ctxDone, wg, mpc, rconn, pending, hpc,
                 hlastMsg, hconn, attempts, failure, waits, failedConnects,
                 subscribed, pinged, arrived, queueVars, extraVars>>

\* subscribe: WriteJSON returns, connMu is released
SubscribeWriteEnd(ok) ==
  /\ lpc = "subscribing"
  /\ ok => conn \in openConns
  /\ IF ok
       THEN /\ subscribed' = conn
            /\ lpc' = "updateLastMsg"
            /\ UNCHANGED <<failure, failedConnects>>
       ELSE /\ failure' = "subscribe"
            /\ failedConnects' = failedConnects + 1
            /\ lpc' = "waitBackoff"
            /\ UNCHANGED subscribed
  /\ UNCHANGED <<detectorVars, enrichVars, conn, openConns, dialed, backoff,
                 lastMsg, stopChan, ctxDone, wg, mpc, rconn, pending, hpc,
                 hlastMsg, hconn, attempts, waits, pinged, arrived, queueVars,
                 extraVars>>

\* subscribe: l.conn is nil
SubscribeNoConn ==
  /\ conn = NoConn
  /\ Subscribe(FALSE)

\* checkHeartbeat: conn.WriteMessage begins, connMu is not held
PingWriteBegin ==
  /\ hpc = "ping"
  /\ hpc' = "pinging"
  /\ UNCHANGED <<detectorVars, enrichVars, conn, openConns, dialed, backoff,
                 lastMsg, stopChan, ctxDone, wg, mpc, lpc, rconn, pending,
                 hlastMsg, hconn, attempts, failure, waits,
                 failedConnects, subscribed, pinged, arrived, queueVars,
                 extraVars>>

\* checkHeartbeat: conn.WriteMessage returns
PingWriteEnd(ok) ==
  /\ hpc = "pinging"
  /\ ok => hconn \in openConns
  /\ IF ok
       THEN pinged' = hconn /\ hpc' = "select"
       ELSE hpc' = "pingFailed" /\ UNCHANGED pinged
  /\ UNCHANGED <<detectorVars, enrichVars, conn, openConns, dialed, backoff,
                 lastMsg, stopChan, ctxDone, wg, mpc, lpc, rconn, pending,
                 hlastMsg, hconn, attempts, failure, waits,
                 failedConnects, subscribed, arrived, queueVars, extraVars>>

\* connMu is held by subscribe for the length of its write
ConnMuFree == lpc # "subscribing"

NextWrites ==
  \/ StartRunLoop
  \/ StartHeartbeat
  \/ Cancel
  \/ StopClose
  \/ ConnMuFree /\ StopCloseConnection
  \/ StopWait
  \/ LoopTop
  \/ ListenerDial
  \/ SetConn
  \/ SubscribeWriteBegin
  \/ \E ok \in BOOLEAN : SubscribeWriteEnd(ok)
  \/ SubscribeNoConn
  \/ ConnectUpdateLastMsg
  \/ ReadSelect
  \/ ReadConn
  \/ ReadMessageError
  \/ ListenerRead
  \/ ReadUpdateLastMsg
  \/ HandleReturn
  \/ CloseAfterRead
  \/ CheckStop
  \/ WaitBackoffBegin
  \/ WaitBackoffEnd
  \/ HeartbeatExit
  \/ HeartbeatTick
  \/ ConnMuFree /\ CheckHeartbeatElapsed
  \/ PingWriteBegin
  \/ \E ok \in BOOLEAN : PingWriteEnd(ok)
  \/ ConnMuFree /\ PingFailedClose
  \/ Elapse

SpecWrites == Init /\ [][NextWrites]_vars

\* --------------------------------- the book feed through the workers

\* the WebSocket payloads of the book feed: arrays of book events, with a
\* last trade price that repeats, jumps, is "0" or is missing
BookFeed ==
  {JArr(<<BookEventJSON("book", "0.058")>>),
   JArr(<<BookEventJSON("book", "0.5"),
          BookEventJSON("price_change", "0.058")>>),
   JArr(<<BookEventJSON("price_change", "0"), BookEventJSON("book", ""),
          BookEventJSON("book", "0.5")>>)}

\* a trade with a maker address, on the asset of the book feed
MakerTrade == Trade("a1", 500, 60000, "0xA")

\* the store.Trade of the parser in the units of the detector rules: the
\* price in thousandths (the price rule reads ratios of prices only), the
\* value in whole dollars
DetectorTrade(t) ==
  Trade(t.AssetID, (t.Price.n * PriceUnit) \div t.Price.d,
        t.ValueUSD.n \div t.ValueUSD.d, t.MakerAddress)

\* readLoop and handleMessage: a payload of the book feed is read;
\* ParseMessage returns its trades
BookRead ==
  /\ pending = << >>
  /\ arrived < MaxBookMessages
  /\ arrived' = arrived + 1
  /\ \E data \in BookFeed :
        pending' = [i \in 1..Len(ParseMessage(data).trades) |->
                      DetectorTrade(ParseMessage(data).trades[i])]
  /\ UNCHANGED <<detectorVars, enrichVars, conn, openConns, dialed, backoff,
                 lastMsg, stopChan, ctxDone, wg, mpc, lpc, rconn, hpc,
                 hlastMsg, hconn, attempts, failure, waits, failedConnects,
                 subscribed, pinged, queueVars, extraVars>>

\* a message with one trade of a maker
MakerRead ==
  /\ pending = << >>
  /\ arrived < MaxBookMessages
  /\ arrived' = arrived + 1
  /\ pending' = <<MakerTrade>>
  /\ UNCHANGED <<detectorVars, enrichVars, conn, openConns, dialed, backoff,
                 lastMsg, stopChan, ctxDone, wg, mpc, lpc, rconn, hpc,
                 hlastMsg, hconn, attempts, failure, waits, failedConnects,
                 subscribed, pinged, queueVars, extraVars>>

\* handleMessage: the non-blocking send of the next trade
BookDispatch ==
  /\ pending # << >>
  /\ tradeChan' = TrySend(tradeChan, TradeCap, Head(pending))
  /\ dropped' = IF Len(tradeChan) < TradeCap THEN dropped
                ELSE Append(dropped, Head(pending))
  /\ pending' = Tail(pending)
  /\ UNCHANGED <<detectorVars, enrichVars, conn, openConns, dialed, backoff,
                 lastMsg, stopChan, ctxDone, wg, mpc, lpc, rconn, hpc,
                 hlastMsg, hconn, attempts, failure, waits,
                 failedConnects, subscribed, pinged, arrived, ppc,
                 pbatch, polls, suspectChan, suspectDrops, wtrade, offered,
                 recvLog, detectLog, extraVars>>

NextBook ==
  \/ BookRead
  \/ MakerRead
  \/ BookDispatch
  \/ \E w \in Callers : WorkerRecv(w)
  \/ \E w \in Callers : WorkerDetect(w)
  \/ \E w \in Callers : DetectPriceRead(w)
  \/ \E w \in Callers : DetectPriceWrite(w)
  \/ \E w \in Callers : RecordLock(w)
  \/ \E w \in Callers : RecordWrite(w)
  \/ \E w \in Callers : WorkerOffer(w)
  \/ \E w \in Callers : WorkerLoop(w)

SpecBook == Init /\ [][NextBook]_vars

\* ===================================================== the claims

\* the call of c has returned: suspects[c] is Detect's result
Returned(c) == pc[c] = "return"

\* how many suspects of the given signal type the result of c holds
CountOf(c, signalType) ==
  Cardinality({i \in DOMAIN suspects[c] : suspects[c][i].SignalType = signalType})

SignalTypes(c) == {suspects[c][i].SignalType : i \in DOMAIN suspects[c]}

C3_BurstOnNthCall ==
  \A c \in Callers :
    LET addr == arg[c].trade.MakerAddress
        n == rec[c].idx
    IN  (/\ Returned(c)
         /\ addr # ""
         /\ \A i \in 1..n : recorded[addr][i] > rec[c].now - BurstWindow)
        => CountOf(c, SignalPanicBurst) = (IF n >= BurstCount THEN 1 ELSE 0)

\* the third trade of value 100 of an address, 30 s after its first: exactly
\* one suspect, a PANIC_BURST
C3_Witness ==
  \E c \in Callers :
    /\ Returned(c)
    /\ arg[c].trade.MakerAddress = "0xA"
    /\ arg[c].trade.ValueUSD = 100
    /\ rec[c].idx = BurstCount
    /\ recorded["0xA"][1] < rec[c].now
    /\ recorded["0xA"][1] > rec[c].now - BurstWindow
    /\ Len(suspects[c]) = 1
    /\ suspects[c][1].SignalType = SignalPanicBurst

\* the price the call before c's, in the order of the price log, wrote
PrevPrice(c) == priceLog[arg[c].trade.AssetID][priceRead[c].idx - 1].new

RulesThatHold(c) ==
  LET trade == arg[c].trade
      addr == trade.MakerAddress
  IN  {r \in {SignalPriceShock} :
         /\ priceRead[c].idx >= 2
         /\ PrevPrice(c) > 0
         /\ 20 * Abs(trade.Price - PrevPrice(c)) >= PrevPrice(c)}
      \cup {r \in {SignalWhale} : trade.ValueUSD >= WhaleValueUSD}
      \cup {r \in {SignalFreshInsider} :
              /\ arg[c].nonce >= 0
              /\ trade.ValueUSD >= MinValueUSD
              /\ arg[c].nonce <= FreshWalletNonce}
      \cup {r \in {SignalPanicBurst} :
              /\ addr # ""
              /\ Cardinality({i \in 1..rec[c].idx :
                                recorded[addr][i] > rec[c].now - BurstWindow})
                   >= BurstCount}

\* C5: the four rules are evaluated independently on every call: the signal
\* types of the result are exactly the rules whose condition holds, each
\* once.
C5_RulesIndependent ==
  \A c \in Callers :
    Returned(c) =>
      /\ SignalTypes(c) = RulesThatHold(c)
      /\ Len(suspects[c]) = Cardinality(RulesThatHold(c))

\* one trade that is a price shock, a whale, a fresh insider and a panic
\* burst at once
C5_Witness ==
  \E c \in Callers :
    /\ Returned(c)
    /\ SignalTypes(c) =
         {SignalPriceShock, SignalWhale, SignalFreshInsider, SignalPanicBurst}

\* C6: the read and the overwrite of lastPrices[assetId] are one atomic
\* step: the calls on an asset are totally ordered (the price log), each
\* compared its price with the price the call just before it wrote (the
\* first with none), and the stored price is that of the last call.
C6_PriceUpdateAtomic ==
  \A a \in Assets :
    LET log == priceLog[a]
    IN  /\ \A i \in DOMAIN log :
             IF i = 1
             THEN ~log[i].exists
             ELSE log[i].exists /\ log[i].lastPrice = log[i - 1].new
        /\ IF log = << >>
           THEN a \notin DOMAIN lastPrices
           ELSE a \in DOMAIN lastPrices /\ lastPrices[a] = log[Len(log)].new

\* two calls on one asset with different prices were in Detect at the same
\* time and both have updated the price
C6_Witness ==
  /\ pc["w1"] \in {"lockBurst", "recordWrite", "return"}
  /\ pc["w2"] \in {"lockBurst", "recordWrite", "return"}
  /\ arg["w1"].trade.AssetID = arg["w2"].trade.AssetID
  /\ arg["w1"].trade.Price # arg["w2"].trade.Price
  /\ priceRead["w2"].idx = priceRead["w1"].idx + 1
  /\ priceRead["w2"].lastPrice = arg["w1"].trade.Price

\* C7: Record first discards the key's timestamps at or before now - window,
\* then appends now and returns the length: 1 plus the number of earlier
\* records of the key strictly newer than now - window, and 1 when all the
\* earlier ones are older (full reset).
C7_RecordCount ==
  \A c \in Callers :
    LET addr == arg[c].trade.MakerAddress
        n == rec[c].idx
        cutoff == rec[c].now - BurstWindow
        InWindow(t) == t > cutoff
    IN  (Returned(c) /\ addr # "") =>
          /\ count[c] =
               1 + Cardinality({i \in 1..(n - 1) : recorded[addr][i] > cutoff})
          /\ rec[c].timestamps =
               SelectSeq(SubSeq(recorded[addr], 1, n - 1), InWindow)
               \o << rec[c].now >>
          /\ (\A i \in 1..(n - 1) : recorded[addr][i] <= cutoff) => count[c] = 1

\* the third record of a key, when its two earlier ones are older than the
\* window, returns 1
C7_Witness ==
  \E c \in Callers :
    /\ Returned(c)
    /\ arg[c].trade.MakerAddress # ""
    /\ rec[c].idx = 3
    /\ count[c] = 1

\* C8: Cleanup deletes every key whose most recent timestamp is older than
\* the window (not after now - window) and no other key; a key that stays
\* keeps its whole timestamp sequence.
C8_CleanupExact ==
  cleanLog.ran =>
    /\ DOMAIN cleanLog.after =
         {addr \in DOMAIN cleanLog.before :
            cleanLog.before[addr][Len(cleanLog.before[addr])]
              > cleanLog.now - BurstWindow}
    /\ \A addr \in DOMAIN cleanLog.after :
         cleanLog.after[addr] = cleanLog.before[addr]

\* a Cleanup that deleted one key and kept another whole, its first
\* timestamp being older than the window
C8_Witness ==
  /\ cleanLog.ran
  /\ DOMAIN cleanLog.before \ DOMAIN cleanLog.after # {}
  /\ \E addr \in DOMAIN cleanLog.after :
       /\ cleanLog.before[addr][1] <= cleanLog.now - BurstWindow
       /\ Len(cleanLog.after[addr]) >= 2

\* Record applied to the first n timestamps of a history, one call after
\* the other
RECURSIVE SequentialRecords(_, _)
SequentialRecords(history, n) ==
  IF n = 0 THEN << >>
  ELSE Pruned(SequentialRecords(history, n - 1), history[n])

\* C9: under any interleaving of Record calls and Cleanup no recorded
\* timestamp that is still inside the window is lost, and each Record call
\* returns the count it returns when the calls run one after the other in the
\* order of the history.
C9_BurstTrackerLinearizable ==
  /\ \A addr \in Addresses :
       LET InWindow(t) == t > now - BurstWindow
       IN  /\ SelectSeq(Lookup(trades, addr), InWindow) =
                SelectSeq(recorded[addr], InWindow)
           /\ \A i, j \in DOMAIN recorded[addr] :
                i < j => recorded[addr][i] <= recorded[addr][j]
           /\ addr \in DOMAIN trades =>
                trades[addr] = SequentialRecords(recorded[addr], Len(recorded[addr]))
  /\ \A c \in Callers :
       LET addr == arg[c].trade.MakerAddress
       IN  (Returned(c) /\ addr # "") =>
             /\ recorded[addr][rec[c].idx] = rec[c].now
             /\ count[c] = Len(SequentialRecords(recorded[addr], rec[c].idx))

\* two Record calls on one key and a Cleanup, all three in progress at once
C9_Witness ==
  /\ Returned("w1")
  /\ Returned("w2")
  /\ clpc = "done"
  /\ arg["w1"].trade.MakerAddress = arg["w2"].trade.MakerAddress
  /\ rec["w1"].now = rec["w2"].now
  /\ count["w1"] = 2
  /\ count["w2"] = 3

\* C10: whenever the orchestrator's periodic cleanup task has run, no
\* address whose last trade is older than the window is left in the
\* detector's state.
C10_PeriodicCleanupEvicts ==
  [][PeriodicCleanup =>
       \A addr \in DOMAIN trades' :
         After(trades'[addr][Len(trades'[addr])], now' - BurstWindow)]_vars

ListenerSending == lpc = "handle" /\ pending # << >>

PollerSending == ppc = "send" /\ pbatch # << >>

\* C12: the sends of the Stream Listener and of the Secondary Poller into
\* the trade queue never block: each is always able to complete, on a queue
\* that holds its capacity it leaves the queue as it is and records the trade
\* as dropped, and the queue never holds more than its capacity.
C12_SendsNeverBlock ==
  /\ [](Len(tradeChan) <= TradeCap)
  /\ [](ListenerSending => ENABLED HandleDispatch)
  /\ [](PollerSending => ENABLED PollerSend)
  /\ [][(HandleDispatch /\ Len(tradeChan) = TradeCap) =>
          /\ tradeChan' = tradeChan
          /\ dropped' = Append(dropped, WireTrade(Head(pending)))
          /\ pending' = Tail(pending)
          /\ lpc' = lpc]_vars
  /\ [][(PollerSend /\ Len(tradeChan) = TradeCap) =>
          /\ tradeChan' = tradeChan
          /\ dropped' = Append(dropped, Head(pbatch))
          /\ pbatch' = Tail(pbatch)
          /\ ppc' = ppc]_vars

C12_Witness ==
  /\ Len(tradeChan) = TradeCap
  /\ \E i \in DOMAIN dropped : dropped[i].src = "ws"
  /\ \E i \in DOMAIN dropped : dropped[i].src = "api"

\* the listener-sourced trades of the queue, front to back
ListenerSourced(q) == SelectSeq(q, LAMBDA t : t.src = "ws")

\* C19: the listener-sourced trades in the trade queue, read front to back,
\* are in the order in which the parser returned them as the messages
\* arrived: none before an earlier one, none twice.
C19_WireOrder ==
  LET q == ListenerSourced(tradeChan)
  IN  \A i, j \in DOMAIN q : i < j => q[i].ID < q[j].ID

C19_Witness ==
  /\ Len(tradeChan) = TradeCap
  /\ \A i \in DOMAIN tradeChan : tradeChan[i].src = "ws"
  /\ tradeChan[1].ID = 2
  /\ tradeChan[2].ID = 3
  /\ lpc = "handle"
  /\ pending = << >>

\* the state of section 4.5 that a position of runLoop belongs to
ListenerState ==
  CASE lpc = "new" -> "DISCONNECTED"
    [] lpc = "loopTop" -> IF attempts = 0 THEN "DISCONNECTED" ELSE "BACKOFF"
    [] lpc \in {"dial", "setConn"} -> "CONNECTING"
    [] lpc = "subscribe" -> "SUBSCRIBING"
    [] lpc \in {"updateLastMsg", "readSelect", "readConn", "readMessage",
                "readUpdate", "handle", "closeConnection", "checkStop"}
         -> "READING"
    [] lpc \in {"waitBackoff", "waiting"} -> "BACKOFF"
    [] lpc = "exited" -> "STOPPED"

\* the transitions of section 4.5, each with the failure that causes it
Transitions ==
  {<<"DISCONNECTED", "CONNECTING", "none">>,
   <<"CONNECTING", "SUBSCRIBING", "none">>,
   <<"SUBSCRIBING", "READING", "none">>,
   <<"CONNECTING", "BACKOFF", "dial">>,
   <<"SUBSCRIBING", "BACKOFF", "subscribe">>,
   <<"READING", "BACKOFF", "read">>,
   <<"BACKOFF", "CONNECTING", "none">>}

\* the failure a transition into BACKOFF follows
Cause(to, f) == IF to = "BACKOFF" THEN f ELSE "none"

\* C13: the listener changes state only by the transitions of section 4.5,
\* into BACKOFF only on the failure of the state it leaves and into STOPPED
\* only when a stop signal was given; while READING the subscription request
\* was written to the connection of this attempt; a dial starts only at the
\* top of the loop, which is reached only from Start and from the end of a
\* backoff wait.
C13_Transitions ==
  /\ [][ListenerState' # ListenerState =>
          \/ ListenerState' = "STOPPED" /\ StopSignal
          \/ <<ListenerState, ListenerState',
               Cause(ListenerState', failure')>> \in Transitions]_vars
  /\ [](ListenerState = "READING" => subscribed = dialed /\ dialed # NoConn)
  /\ [][lpc' = "dial" /\ lpc # "dial" => lpc = "loopTop"]_vars
  /\ [][lpc' = "loopTop" /\ lpc # "loopTop" => lpc \in {"new", "waiting"}]_vars
  /\ [][ListenerState' = "SUBSCRIBING" /\ lpc # "subscribe" =>
          conn' = dialed /\ dialed \in openConns]_vars

C13_Witness ==
  /\ lpc = "readMessage"
  /\ dialed = 2
  /\ failure = "none"
  /\ attempts = 3
  /\ ~StopSignal

\* C14: Stop returns only when runLoop and heartbeatMonitor have both
\* exited, and every call of Stop returns.
C14_StopJoins ==
  /\ [](mpc = "stopped" => lpc = "exited" /\ hpc = "exited")
  /\ (mpc = "stopCloseConnection" ~> mpc = "stopped")

C14_Witness ==
  /\ mpc = "stopped"
  /\ ~ctxDone
  /\ dialed = 2
  /\ subscribed = 1
  /\ hconn # NoConn

\* a failure that runLoop handles: connect or readLoop returned an error
Failed ==
  /\ failure \in {"dial", "subscribe", "read"}
  /\ lpc \in {"closeConnection", "checkStop", "waitBackoff"}

\* C18: the listener and its monitor end only on a stop signal, and while
\* none is given every failure of a dial, of the subscription or of a read,
\* and every failed ping of the connection being read, is followed by a
\* backoff wait and then by a new connection attempt.
C18_FailuresNeverFatal ==
  /\ [](lpc = "exited" \/ hpc = "exited" => StopSignal)
  /\ (Failed ~> (lpc = "waiting" \/ StopSignal))
  /\ (lpc = "waiting" ~> (lpc = "dial" \/ StopSignal))
  /\ (hpc = "pingFailed" /\ lpc = "readMessage" /\ rconn = hconn
        ~> (lpc = "dial" \/ StopSignal))

C18_Witness ==
  /\ lpc = "dial"
  /\ attempts = 1
  /\ failure = "read"
  /\ hpc = "select"
  /\ hconn = 1
  /\ pinged = NoConn
  /\ ~StopSignal

\* the base of the j-th wait in a row: InitialBackoff doubled j - 1 times,
\* at most MaxBackoff
BaseOfWait(j) == Min(InitialBackoff * BackoffFactor ^ (j - 1), MaxBackoff)

\* C15 as stated: the backoff lies between the initial value and the ceiling
\* and the wait after the k-th consecutive failed connection attempt has
\* the base min(initial * 2^(k-1), ceiling).
C15_BackoffByFailedAttempts ==
  /\ InitialBackoff <= backoff
  /\ backoff <= MaxBackoff
  /\ (lpc = "waiting" /\ failure \in {"dial", "subscribe"}) =>
        backoff = BaseOfWait(failedConnects)

\* C15, amended: the backoff lies between the initial value and the
\* ceiling; it is the initial value after a successful dial and is doubled,
\* up to the ceiling, by each wait, so the j-th wait since the last
\* successful dial (or since Start) has the base min(initial * 2^(j-1),
\* ceiling).
C15_BackoffByWaits ==
  /\ InitialBackoff <= backoff
  /\ backoff <= MaxBackoff
  /\ lpc = "waiting" => backoff = BaseOfWait(waits)
  /\ lpc # "waiting" => backoff = BaseOfWait(waits + 1)

C15_Witness ==
  /\ lpc = "waiting"
  /\ waits = 7
  /\ backoff = MaxBackoff
  /\ failure = "dial"
  /\ failedConnects = 6

\* C16: a failed subscription leaves the listener as a failed dial does,
\* without a connection handle and without an open connection, on its way
\* through the backoff wait to the next dial.
C16_SubscribeFailureAsDialFailure ==
  (failure = "subscribe" /\ lpc \in {"waitBackoff", "waiting", "loopTop", "dial"})
    => (conn = NoConn /\ openConns = {})

\* C17: on a tick the monitor probes the current connection exactly when
\* the time since the last message it read exceeds the heartbeat timeout
\* (and there is a connection), and after a failed probe the connection that
\* was probed is closed.
C17_FailedProbeCloses ==
  /\ [][CheckHeartbeatElapsed =>
          /\ (hpc' = "ping") = (now - hlastMsg > HeartbeatTimeout /\ conn # NoConn)
          /\ hpc' = "ping" => hconn' = conn]_vars
  /\ [][PingFailedClose => hconn \notin openConns']_vars

\* C20: every trade a worker received it passed to Detect once, with the
\* nonce -1, or is about to; an offer of a suspect is always able to
\* complete; the suspect queue never holds more than its capacity, and never
\* a FRESH_INSIDER suspect.
C20_WorkerDetectsAndOffers ==
  /\ \A w \in Callers :
       /\ Len(recvLog[w]) =
            Len(detectLog[w])
              + (IF pc[w] = "idle" /\ wtrade[w] # ZeroTrade THEN 1 ELSE 0)
       /\ \A i \in DOMAIN detectLog[w] :
            detectLog[w][i] = [trade |-> recvLog[w][i], nonce |-> -1]
       /\ (pc[w] = "return" /\ offered[w] < Len(suspects[w]))
            => ENABLED WorkerOffer(w)
  /\ Len(suspectChan) <= SuspectCap
  /\ \A i \in DOMAIN suspectChan :
       suspectChan[i].SignalType # SignalFreshInsider
  /\ \A i \in DOMAIN suspectDrops :
       suspectDrops[i].SignalType # SignalFreshInsider

C20_Witness ==
  /\ Len(suspectChan) = SuspectCap
  /\ suspectDrops # << >>
  /\ \E w \in Callers :
       /\ Len(detectLog[w]) = 2
       /\ pc[w] = "return"
       /\ offered[w] = Len(suspects[w])
       /\ offered[w] > 0

\* ------------------------------------------------- the parser

\* the size and the price string of a payload of NumberPayloads
RawSize(data) ==
  IF data.fields["type"].s = "trade" THEN data.fields["data"].fields["size"].s
  ELSE data.fields["size"].s

RawPrice(data) ==
  IF data.fields["type"].s = "trade" THEN data.fields["data"].fields["price"].s
  ELSE data.fields["price"].s

\* the string cannot be parsed as a number
Unparseable(s) == s = "" \/ StrconvParseFloat(s).err

\* ParseMessage was called on a raw trade or last_trade_price event
NumberCase == parsed.called /\ parsed.data \in NumberPayloads

\* C26: every Trade the parser or the poller's conversion produces has
\* valueUsd >= 0, whatever the size and price strings.
C26_ValueNonNegative ==
  /\ parsed.called =>
       \A i \in 1..Len(parsed.trades) : FNonNegative(parsed.trades[i].ValueUSD)
  /\ converted.called => FNonNegative(converted.trade.ValueUSD)

\* C27: a raw trade whose size or price string cannot be parsed as a number
\* is still emitted, without an error, with valueUsd = 0.
C27_UnparseableGivesZero ==
  (NumberCase /\ (Unparseable(RawSize(parsed.data))
                  \/ Unparseable(RawPrice(parsed.data))))
    => /\ ~parsed.err
       /\ Len(parsed.trades) = 1
       /\ parsed.trades[1].ValueUSD = FZero

\* the value the heuristic is said to give for a size string
ValueOfSize(s) ==
  LET size == StrconvParseFloat(s).f
  IN  IF Unparseable(s) THEN FZero
      ELSE IF FGreater(size, 1000000) \/ FGreater(FMul(size, Fin(0 - 1, 1)), 1000000)
        THEN FDiv(size, 1000000)
      ELSE size

\* C28: computeValueUsd gives 0 for a size that does not parse, the parsed
\* size when its magnitude is at most 10^6, the parsed size times 10^-6 when
\* its magnitude exceeds 10^6, and the same for every price.
C28_ValueHeuristic ==
  NumberCase =>
    /\ Len(parsed.trades) = 1
    /\ parsed.trades[1].ValueUSD = ValueOfSize(RawSize(parsed.data))

\* the shapes of section 4.1, in their order: 1 an array of orderbook events
\* whose first event is a book or price_change event, 2 a single event with
\* an event type, 3 an envelope of type last_trade_price, 4 an envelope of
\* type trade, 0 none of them
IsEnvelope(data) ==
  data.t = "obj" /\ data.fields["type"].t \in {"absent", "null", "str"}

Shape(data) ==
  IF /\ UnmarshalBookEvents(data).ok
     /\ data.t = "arr"
     /\ Len(data.elems) > 0
     /\ UnmarshalBookEvent(data.elems[1]).EventType \in {"book", "price_change"}
    THEN 1
  ELSE IF data.t = "obj" /\ StructOk(data, BookKeys) /\ data.fields["event_type"].t = "str"
          /\ data.fields["event_type"].s # ""
    THEN 2
  ELSE IF IsEnvelope(data) /\ data.fields["type"].s = "last_trade_price" THEN 3
  ELSE IF IsEnvelope(data) /\ data.fields["type"].s = "trade" THEN 4
  ELSE 0

\* the trades a payload holds when read as the shape k
Extractable(data, k) ==
  CASE k = 1 -> parseBookEvents(UnmarshalBookEvents(data).events)
    [] k = 2 -> parseBookEvents(<<UnmarshalBookEvent(data)>>)
    [] k = 3 -> parseLastTradePrice(data).trades
    [] k = 4 -> parseTrades(data.fields["data"])
    [] OTHER -> << >>

\* C29: the shapes are tried in the fixed order and the first structural
\* match is final: the result is what that shape holds, possibly nothing,
\* without an error, whatever a later shape would have extracted.
C29_FirstStructuralMatch ==
  (parsed.called /\ Shape(parsed.data) # 0)
    => /\ ~parsed.err
       /\ parsed.trades = Extractable(parsed.data, Shape(parsed.data))

\* C30: a payload that is valid as a generic envelope gives no error, and
\* one that matches no shape gives no trades and its type discriminator.
C30_ErrorOnlyForInvalidEnvelope ==
  parsed.called =>
    /\ IsEnvelope(parsed.data) => ~parsed.err
    /\ (IsEnvelope(parsed.data) /\ Shape(parsed.data) = 0)
         => /\ parsed.trades = << >>
            /\ parsed.msgType = parsed.data.fields["type"].s

\* ------------------------------------------------- the poller

\* C24: a failed fetch, the initial one included, enqueues nothing and leaves
\* the poller at its select, from which it goes on to the next fetch at the
\* next tick; it exits only on the shutdown signal.
C24_FetchFailureNotFatal ==
  /\ [](ppc = "exited" => ctxDone)
  /\ [][(polls' = polls + 1 /\ ~lastFetch'.ok)
          => (ppc' = "select" /\ tradeChan' = tradeChan /\ pbatch' = << >>)]_vars
  /\ [][(ppc = "select" /\ ppc' # "select")
          => (ppc' = "poll" \/ (ppc' = "exited" /\ ctxDone))]_vars

\* after a failed initial fetch and a tick the poller is about to fetch again
C24_Witness ==
  /\ ppc = "poll"
  /\ polls = 1
  /\ lastFetch.called
  /\ ~lastFetch.ok
  /\ ~ctxDone

\* C25: every fetch uses the time of the last successful fetch as its lower
\* bound: a fetch that succeeds, also with zero items, makes its own time the
\* next lower bound, and a fetch that fails leaves the lower bound alone.
C25_LowerBoundIsLastSuccess ==
  [][polls' = polls + 1
       => /\ lastFetch'.after = lastPoll
          /\ lastPoll' = IF lastFetch'.ok THEN lastFetch'.at ELSE lastPoll]_vars


\* ------------------------------------------------------------- C21

\* the trades a worker has passed to Detect
Detected(w) == {detectLog[w][i].trade : i \in DOMAIN detectLog[w]}

\* C21: while the pipeline runs, before the drain, every trade that leaves
\* tradeChan is received by exactly one worker, and no other task removes
\* trades; every trade a worker received and has finished with was passed to
\* Detect.
C21_WorkersOnlyConsumers ==
  /\ [][(mpc \notin {"drain", "done"} /\ Len(tradeChan') < Len(tradeChan))
          => /\ tradeChan' = Tail(tradeChan)
             /\ \E w \in Callers :
                  /\ recvLog'[w] = Append(recvLog[w], Head(tradeChan))
                  /\ \A v \in Callers \ {w} : recvLog'[v] = recvLog[v]]_vars
  /\ [](\A w \in Callers :
          pc[w] \in {"idle", "exited"} /\ wtrade[w] = ZeroTrade
            => Range(recvLog[w]) = Detected(w))

\* the same with App.processTrades counted as a consumer: every trade that
\* leaves tradeChan before the drain goes to one worker or to the TUI
C21_WorkersAndTUI ==
  [][(mpc \notin {"drain", "done"} /\ Len(tradeChan') < Len(tradeChan))
       => /\ tradeChan' = Tail(tradeChan)
          /\ \/ \E w \in Callers :
                  /\ recvLog'[w] = Append(recvLog[w], Head(tradeChan))
                  /\ \A v \in Callers \ {w} : recvLog'[v] = recvLog[v]
                  /\ uiLog' = uiLog
             \/ /\ uiLog' = Append(uiLog, Head(tradeChan))
                /\ recvLog' = recvLog]_vars

\* ------------------------------------------------------------- C22

\* every task that was started has returned; a poller that is not
\* configured is never started
AllExited ==
  /\ lpc = "exited"
  /\ hpc = "exited"
  /\ ppc \in {"new", "exited"}
  /\ cpc = "exited"
  /\ \A w \in Callers : pc[w] = "exited"

\* C22: after the cancellation of the context, runLoop, heartbeatMonitor,
\* the poller, every worker and the cleanup goroutine each eventually
\* return.
C22_AllTasksExit == ctxDone ~> AllExited

\* all have returned, the poller among them, in a run where a worker passed
\* a trade to Detect
C22_Witness ==
  /\ ctxDone
  /\ AllExited
  /\ ppc = "exited"
  /\ \E w \in Callers : detectLog[w] # << >>

\* ------------------------------------------------------------- C23

\* drainTrades runs only after cancel() and after Stop has returned: stopChan
\* is closed and both tasks of the Listener have returned
StopReturnedFirst ==
  /\ [](mpc \in {"drain", "done"}
          => /\ ctxDone
             /\ stopChan = "closed"
             /\ wg = 0
             /\ lpc = "exited"
             /\ hpc = "exited")
  /\ [][(mpc # "drain" /\ mpc' = "drain") => mpc = "stopped"]_vars

\* the drain takes trades from the head of tradeChan and counts them; no
\* worker receives a drained trade, so none is passed to Detect; after its
\* return the drain takes no more
DrainedDiscarded ==
  /\ [][drainedTrades' # drainedTrades
          => /\ mpc = "drain"
             /\ tradeChan # << >>
             /\ drainedTrades' = Append(drainedTrades, Head(tradeChan))
             /\ tradeChan' = Tail(tradeChan)]_vars
  /\ [](drained = Len(drainedTrades))
  /\ [](\A w \in Callers :
          /\ Range(drainedTrades) \cap Range(recvLog[w]) = {}
          /\ Range(drainedTrades) \cap Detected(w) = {})

\* the drain always returns
DrainTerminates == (mpc = "drain") ~> (mpc = "done")

\* C23 as stated: the drain removes trades until the grace period expires
\* and logs the number drained
C23_DrainUntilGraceExpires ==
  /\ StopReturnedFirst
  /\ DrainedDiscarded
  /\ DrainTerminates
  /\ [][(mpc = "drain" /\ mpc' # "drain")
          => /\ mpc' = "done"
             /\ timeout
             /\ drainLog' = drained]_vars

\* C23: on shutdown main first stops the Listener (Stop has returned), then
\* drains tradeChan until it finds it empty or the grace period has expired,
\* logs the number drained when it is not zero, and returns; the drain
\* always terminates, and drained trades are not passed to the detector.
C23_DrainUntilEmptyOrExpired ==
  /\ StopReturnedFirst
  /\ DrainedDiscarded
  /\ DrainTerminates
  /\ [][(mpc = "drain" /\ mpc' # "drain")
          => /\ mpc' = "done"
             /\ timeout \/ tradeChan = << >>
             /\ drainLog' = IF drained > 0 THEN drained ELSE NoLog]_vars

\* the drain has returned having drained and logged a trade, in a run where
\* a worker passed another to Detect
C23_Witness ==
  /\ mpc = "done"
  /\ drained > 0
  /\ drainLog = drained
  /\ \E w \in Callers : detectLog[w] # << >>

\* ------------------------------------------------------------- C31

\* the payload is an array of well-typed orderbook events, each of type book
\* or price_change
IsBookArray(data) ==
  /\ data.t = "arr"
  /\ Len(data.elems) > 0
  /\ \A i \in 1..Len(data.elems) :
       /\ data.elems[i].t = "obj"
       /\ StructOk(data.elems[i], BookKeys)
       /\ data.elems[i].fields["event_type"].s \in {"book", "price_change"}

\* the last_trade_price string of a raw event, and whether it is usable: not
\* empty and not zero as a number, a malformed string counting as zero
RawLastTradePrice(e) == e.fields["last_trade_price"].s

Usable(e) ==
  /\ RawLastTradePrice(e) # ""
  /\ ~FIsZero(parseFloat(RawLastTradePrice(e)))

\* C31: for an array of orderbook-snapshot events the parser yields, without
\* an error, exactly one Trade per event with a usable lastTradePrice, in
\* event order, each with price = lastTradePrice, valueUsd = 0 and size
\* "book_update", and nothing for the other events; one event with
\* lastTradePrice "0.058" gives one Trade of price 0.058 and valueUsd 0.
C31_BookArrayTrades ==
  /\ (parsed.called /\ IsBookArray(parsed.data))
       => LET kept == SelectSeq(parsed.data.elems, Usable)
          IN  /\ ~parsed.err
              /\ parsed.msgType = "book_array"
              /\ Len(parsed.trades) = Len(kept)
              /\ \A i \in 1..Len(kept) :
                   /\ parsed.trades[i].Price
                        = parseFloat(RawLastTradePrice(kept[i]))
                   /\ parsed.trades[i].ValueUSD = FZero
                   /\ parsed.trades[i].Size = "book_update"
                   /\ parsed.trades[i].AssetID = kept[i].fields["asset_id"].s
                   /\ parsed.trades[i].MarketID = kept[i].fields["market"].s
  /\ (parsed.called /\ parsed.data = JArr(<<BookEventJSON("book", "0.058")>>))
       => /\ Len(parsed.trades) = 1
          /\ parsed.trades[1].Price = Fin(58, 1000)
          /\ parsed.trades[1].ValueUSD = FZero

\* an array of three events, the second without a price, gave two trades
C31_Witness ==
  /\ parsed.called
  /\ IsBookArray(parsed.data)
  /\ Len(parsed.data.elems) = 3
  /\ ~Usable(parsed.data.elems[2])
  /\ Len(parsed.trades) = 2
  /\ parsed.trades[2].Price = Fin(5, 10)

\* ------------------------------------------------------------- C32

\* what handling a message must leave alone
SameReading ==
  /\ rconn' = rconn
  /\ backoff' = backoff
  /\ tradeChan' = tradeChan
  /\ dropped' = dropped
  /\ failure' = failure

\* C32: a message for which ParseMessage returns an error or no trade never
\* ends the read loop: from ReadMessage's return through updateLastMsg and
\* handleMessage the run loop comes back to the select of readLoop, on the
\* same connection, with tradeChan and the backoff unchanged.
C32_MalformedKeepsReading ==
  /\ [][(lpc = "readMessage" /\ lpc' = "readUpdate" /\ pending' = << >>)
          => SameReading]_vars
  /\ [][(lpc = "readUpdate" /\ pending = << >> /\ lpc' # lpc)
          => (lpc' = "handle" /\ pending' = << >> /\ SameReading)]_vars
  /\ [][(lpc = "handle" /\ pending = << >> /\ lpc' # lpc)
          => (lpc' = "readSelect" /\ SameReading)]_vars
  /\ [](lpc \in {"readUpdate", "handle"} => ListenerState = "READING")

\* handleMessage is about to return for a first message without a trade,
\* while tradeChan holds a trade of the poller
C32_Witness ==
  /\ lpc = "handle"
  /\ pending = << >>
  /\ arrived = 0
  /\ tradeChan # << >>
  /\ ~StopSignal

\* ------------------------------------------------------------- C33

\* Stop has returned
StopReturned == mpc \in {"stopped", "drain", "done"}

\* C33: STOPPED is terminal: once Stop has returned the listener dials no
\* more, writes no subscription and no probe, reads no message and sends no
\* trade into tradeChan, and it stays STOPPED.
C33_StoppedIsTerminal ==
  /\ [](StopReturned => ListenerState = "STOPPED" /\ hpc = "exited")
  /\ [][StopReturned
          => /\ StopReturned'
             /\ attempts' = attempts
             /\ dialed' = dialed
             /\ subscribed' = subscribed
             /\ pinged' = pinged
             /\ arrived' = arrived
             /\ pending' = pending
             /\ dropped' = dropped
             /\ Len(tradeChan') <= Len(tradeChan)]_vars

\* Stop has returned after a dial, with a trade still in tradeChan
C33_Witness ==
  /\ mpc = "stopped"
  /\ dialed > 0
  /\ subscribed # NoConn
  /\ tradeChan # << >>

\* ------------------------------------------------------------- C34

\* the run loop is in waitBackoff's select, or back at the top of its loop,
\* with a stop signal given
StoppedInBackoff == lpc \in {"waiting", "loopTop"} /\ StopSignal

SameRawTrade ==
  /\ NumberCase
  /\ converted.called
  /\ RawSize(parsed.data) = converted.apiTrade.Size
  /\ RawPrice(parsed.data) = converted.apiTrade.Price

\* C35: for the same size and price strings the poller's convertTrade gives
\* the ValueUSD that the parser gives, so that the trade is a whale on both
\* paths or on neither.
C35_PollerMatchesParser ==
  SameRawTrade
    => /\ Len(parsed.trades) = 1
       /\ converted.trade.ValueUSD = parsed.trades[1].ValueUSD
       /\ FGreater(converted.trade.ValueUSD, WhaleValueUSD)
            <=> FGreater(parsed.trades[1].ValueUSD, WhaleValueUSD)

\* ------------------------------------------------------------- C36

\* C36: when Stop has returned the listener holds no connection and every
\* connection it opened has been closed.
C36_StopClosesEveryConnection ==
  StopReturned => (conn = NoConn /\ openConns = {})

\* ------------------------------------------------------------- C37

\* C37: the monitor's failure handling closes no connection but the one its
\* probe failed on: a connection that the run loop stored after the monitor
\* took its probe target stays open.
C37_MonitorClosesOnlyProbed ==
  [][(hpc = "pingFailed" /\ hpc' # hpc)
       => (openConns \ openConns') \subseteq {hconn}]_vars

\* ------------------------------------------------------------- C38

\* C38: the subscription write of the run loop and the probe write of the
\* heartbeat monitor are never in progress on one connection at once.
C38_WritesExclusive ==
  ~(lpc = "subscribing" /\ hpc = "pinging" /\ hconn = conn)

\* ------------------------------------------------------------- C39

\* C39: every key the Burst Tracker stores has a non-empty timestamp
\* sequence in non-decreasing order, and the sequence Record stores for a key
\* holds only timestamps strictly newer than now - window, its length being
\* the count Record returns.
C39_TrackerWellFormed ==
  /\ \A addr \in DOMAIN trades :
       /\ Len(trades[addr]) >= 1
       /\ \A i \in 1..(Len(trades[addr]) - 1) :
            trades[addr][i] <= trades[addr][i + 1]
  /\ \A c \in Callers :
       (Returned(c) /\ arg[c].trade.MakerAddress # "") =>
         /\ \A i \in 1..Len(rec[c].timestamps) :
              After(rec[c].timestamps[i], rec[c].now - BurstWindow)
         /\ count[c] = Len(rec[c].timestamps)

\* a Record that discarded an old timestamp of its key and kept a recent one
C39_Witness ==
  \E c \in Callers :
    /\ Returned(c)
    /\ arg[c].trade.MakerAddress # ""
    /\ Len(rec[c].timestamps) = 2
    /\ rec[c].idx = 3
    /\ trades[arg[c].trade.MakerAddress] = rec[c].timestamps
    /\ rec[c].timestamps[1] < rec[c].timestamps[2]

\* ------------------------------------------------------------- C40

\* a trade as parseBookEvents makes it: of an asset, of value 0, without a
\* maker address
IsBookTrade(trade) ==
  trade.AssetID # "" /\ trade.ValueUSD = 0 /\ trade.MakerAddress = ""

\* what a worker holds and has offered for a book trade is of type
\* PRICE_SHOCK, and Detect does not reach Record for it
BookSuspectsPriceShockOnly ==
  /\ \A w \in Callers :
       IsBookTrade(arg[w].trade) =>
         /\ pc[w] \notin {"lockBurst", "recordWrite"}
         /\ \A i \in 1..Len(suspects[w]) :
              suspects[w][i].SignalType = SignalPriceShock
  /\ \A i \in 1..Len(suspectChan) :
       IsBookTrade(suspectChan[i].Trade) =>
         suspectChan[i].SignalType = SignalPriceShock
  /\ \A i \in 1..Len(suspectDrops) :
       IsBookTrade(suspectDrops[i].Trade) =>
         suspectDrops[i].SignalType = SignalPriceShock

\* a step of a worker on a book trade leaves b.trades as it is
BookStepKeepsTracker ==
  \A w \in Callers :
    (/\ pc'[w] # pc[w]
     /\ IsBookTrade(arg[w].trade) \/ IsBookTrade(arg'[w].trade))
      => (trades' = trades /\ recorded' = recorded)

\* C40: a trade synthesized from a book event (value 0, no maker address)
\* that a worker passes to Detect gives no suspect other than PRICE_SHOCK
\* and leaves the Burst Tracker unchanged, the whale and minimum-value
\* thresholds being positive.
C40_BookTradeOnlyPriceShock ==
  /\ WhaleValueUSD > 0 /\ MinValueUSD > 0
  /\ []BookSuspectsPriceShockOnly
  /\ [][BookStepKeepsTracker]_vars

\* a worker has offered the PRICE_SHOCK suspect of a book trade while the
\* Burst Tracker holds the record of a maker
C40_Witness ==
  \E w \in Callers :
    /\ Returned(w)
    /\ IsBookTrade(arg[w].trade)
    /\ Len(suspects[w]) = 1
    /\ offered[w] = 1
    /\ trades # EmptyMap
=============================================================================
